---- MODULE Spec2Model ----
(***************************************************************************)
(* Model of the Word document server: the document session manager with   *)
(* its live-editing extensions (session_manager.py), the WebSocket bridge *)
(* (main.py), the run surgery of enhanced_search_and_replace and          *)
(* add_text_content (content_tools.py), the live path of get_text         *)
(* (document_tools.py),                                                   *)
(* resolve_document_path (session_utils.py), the review tools             *)
(* (review_tools.py), the section tools (section_tools.py), the           *)
(* protection tools (protection_tools.py) and check_file_writeable        *)
(* (file_utils.py).                                                        *)
(***************************************************************************)
EXTENDS Integers, Sequences, FiniteSets, TLC

(***************************************************************************)
(* Bounds                                                                  *)
(***************************************************************************)
\* number of DocumentHandle objects created in one run
MaxHandles == 2
\* number of send_live_request calls (correlation ids) in one run
MaxRequests == 1

(***************************************************************************)
(* Values                                                                  *)
(***************************************************************************)
\* Python's None
None == "None"

\* document ids of the sessions
Ids == {"main", "draft"}
\* document_id arguments, the empty string included
IdInputs == Ids \cup {""}

CorruptFiles == {"bad.docx"}
\* file_path arguments
PathInputs == {"", "f1", "f2.docx", "gone.docx", "bad.docx"}
\* websocket connection objects
Sockets == {"s1", "s2"}
\* correlation ids
Cids == 1..MaxRequests
\* identities of the handle objects
Hids == 1..MaxHandles
\* "response" messages: a success with its payload, a failure with its error
ResponseData == {[status |-> "success", data |-> "p1", error |-> None],
                 [status |-> "error", data |-> None, error |-> "e1"]}

VARIABLES
    documents,        \* _documents: the handles, in dict insertion order
    created,          \* number of DocumentHandle objects constructed so far
    pending_requests, \* handle identity -> handle.pending_requests (its keys)
    active,           \* _active_document_id
    futures,          \* cid -> state and value of the asyncio future
    callers,          \* cid -> position of the send_live_request coroutine
    sockets,          \* socket -> connection state and registered_document_id
    result,           \* what the last called tool operation returned
    para,             \* the runs of the paragraph in the saved document
    replace_call,     \* the enhanced_search_and_replace call made
    disk,             \* file path -> the paragraphs of the file on disk
    get_text_call,    \* the get_text coroutine: position, arguments, answer
    resolve_call,     \* the resolve_document_path call made: arguments, pair
    cdoc,             \* the paragraph texts of the commented document file
    added,            \* what each accepted manage_comments add was given
    comment_call,     \* the manage_comments call made and what it returned
    tdoc,             \* the children of the paragraph of the tracked document
    track_call,       \* the manage_track_changes call made and its outcome
    sdoc,             \* the paragraphs of the sectioned document
    sections_call,    \* the get_sections call made and the forest it built
    tocdoc,           \* the paragraphs of the document that gets a ToC
    toc_log,          \* the generate_table_of_contents calls made, in order
    pdoc,             \* the paragraph texts of the signed document
    signature_file,   \* the .signature sidecar of the document
    protection_file,  \* the .protection sidecar of the document
    protect_log,      \* the signing, verifying and editing done, in order
    directory,        \* the names of the files in the directory
    writable,         \* the files whose permissions allow writing
    temp_files,       \* number of temporary files left in the temp directory
    check_call,       \* the check_file_writeable call made and its answer
    summary_call,     \* the generate_review_summary call made and its report
    adoc,             \* the paragraphs of the document that gets content
    add_log           \* the add_text_content calls made, in order

svars == <<documents, created, pending_requests, active, futures, callers,
           sockets, result>>
\* the state of every tool
tvars == <<para, replace_call, disk, get_text_call, resolve_call,
           cdoc, added, comment_call, tdoc, track_call, sdoc, sections_call,
           tocdoc, toc_log, pdoc, signature_file, protection_file,
           protect_log, directory, writable, temp_files, check_call,
           summary_call, adoc, add_log>>

\* a call of the tool `own` leaves the state of every other tool as it is
besides(own) ==
    /\ IF own = "replace" THEN TRUE ELSE UNCHANGED <<para, replace_call>>
    /\ IF own = "get_text" THEN TRUE ELSE UNCHANGED <<disk, get_text_call>>
    /\ IF own = "resolve" THEN TRUE ELSE UNCHANGED resolve_call
    /\ IF own = "comments" THEN TRUE
       ELSE UNCHANGED <<cdoc, added, comment_call>>
    /\ IF own = "track_changes" THEN TRUE ELSE UNCHANGED <<tdoc, track_call>>
    /\ IF own = "sections" THEN TRUE ELSE UNCHANGED <<sdoc, sections_call>>
    /\ IF own = "toc" THEN TRUE ELSE UNCHANGED <<tocdoc, toc_log>>
    /\ IF own = "protection" THEN TRUE
       ELSE UNCHANGED <<pdoc, signature_file, protection_file, protect_log>>
    /\ IF own = "writeable" THEN TRUE
       ELSE UNCHANGED <<directory, writable, temp_files, check_call>>
    /\ IF own = "review_summary" THEN TRUE ELSE UNCHANGED summary_call
    /\ IF own = "add_text" THEN TRUE ELSE UNCHANGED <<adoc, add_log>>

(***************************************************************************)
(* file_utils.ensure_docx_extension: append ".docx" unless already there. *)
(***************************************************************************)
ensure_docx_extension(filename) ==
    CASE filename = "f1" -> "f1.docx"
      [] filename = "" -> ".docx"
      [] OTHER -> filename

\* os.path.exists
PathExists(p) == p \in {"f1.docx", "f2.docx", "bad.docx"}

\* the metadata captured at open time (file size stands for the four fields)
FileMetadata(p) ==
    CASE p = "f1.docx" -> 11
      [] p = "f2.docx" -> 22
      [] OTHER -> 0

(***************************************************************************)
(* Views of the _documents dict                                            *)
(***************************************************************************)
\* keys of _documents
OpenIds == {documents[i].document_id : i \in 1..Len(documents)}

\* position of document_id in the dict (0 when absent)
get_document(document_id) ==
    IF document_id \in OpenIds
    THEN CHOOSE i \in 1..Len(documents) : documents[i].document_id = document_id
    ELSE 0

\* sequence without the element at index i
RemoveAt(s, i) == SubSeq(s, 1, i - 1) \o SubSeq(s, i + 1, Len(s))

\* is_document_live(document_id): handle.is_live of the handle, False if absent
is_document_live(document_id) ==
    LET i == get_document(document_id)
    IN IF i = 0 THEN FALSE ELSE documents[i].websocket_connection # None

\* find_document_by_websocket: first handle, in dict order, with this socket
find_document_by_websocket(websocket) ==
    LET hits == {i \in 1..Len(documents) :
                    documents[i].websocket_connection = websocket}
    IN IF hits = {} THEN None
       ELSE LET first == CHOOSE i \in hits : \A j \in hits : i <= j
            IN documents[first].document_id

\* list_open_documents: the report
list_open_documents ==
    IF documents = <<>>
    THEN [kind |-> "NoDocuments", ids |-> <<>>, active |-> active]
    ELSE [kind |-> "Listing",
          ids |-> [i \in 1..Len(documents) |-> documents[i].document_id],
          active |-> active]

\* what a tool call returned: the operation, its document_id and the kind of
\* message, with the listing for list_open_documents
Res(op, id, kind) ==
    [op |-> op, document_id |-> id, kind |-> kind, report |-> [kind |-> None, ids |-> <<>>, active |-> None]]

(***************************************************************************)
(* Initial state: a fresh DocumentSessionManager, no socket connected.     *)
(***************************************************************************)
SInit ==
    /\ documents = <<>>
    /\ created = 0
    /\ pending_requests = [h \in Hids |-> {}]
    /\ active = None
    /\ futures = [c \in Cids |-> [state |-> "none", value |-> None]]
    /\ callers = [c \in Cids |-> [pc |-> "idle", hid |-> 0]]
    /\ sockets = [s \in Sockets |-> [state |-> "new", registered_document_id |-> None]]
    /\ result = Res("init", None, "Ok")

(***************************************************************************)
(* DocumentSessionManager.open_document: the message kind it returns and   *)
(* the _documents and _active_document_id it leaves.                       *)
(***************************************************************************)
Failed(kind) == [kind |-> kind, documents |-> documents, active |-> active]

\* open_document without the 'already in use' check: the handle is replaced
open_document_no_conflict(document_id, file_path) ==
    LET path == ensure_docx_extension(file_path)
        handle == [hid |-> created + 1,
                   document_id |-> document_id,
                   file_path |-> path,
                   metadata |-> FileMetadata(path),
                   websocket_connection |-> None]
    IN
    IF document_id = "" THEN Failed("EmptyId")
    ELSE IF file_path = "" THEN Failed("EmptyPath")
    ELSE IF ~PathExists(path) THEN Failed("NotFound")
    ELSE IF path \in CorruptFiles THEN Failed("InvalidInput")
    ELSE [kind |-> "Ok",
          documents |-> IF document_id \in OpenIds
                        THEN [i \in 1..Len(documents) |->
                                IF documents[i].document_id = document_id
                                THEN handle ELSE documents[i]]
                        ELSE Append(documents, handle),
          active |-> IF active = None THEN document_id ELSE active]

\* open_document making every opened document the active one
open_document_always_active(document_id, file_path) ==
    LET path == ensure_docx_extension(file_path) IN
    IF document_id = "" THEN Failed("EmptyId")
    ELSE IF file_path = "" THEN Failed("EmptyPath")
    ELSE IF ~PathExists(path) THEN Failed("NotFound")
    ELSE IF document_id \in OpenIds THEN Failed("Conflict")
    ELSE IF path \in CorruptFiles THEN Failed("InvalidInput")
    ELSE [kind |-> "Ok",
          documents |-> Append(documents,
                          [hid |-> created + 1,
                           document_id |-> document_id,
                           file_path |-> path,
                           metadata |-> FileMetadata(path),
                           websocket_connection |-> None]),
          active |-> document_id]

open_document(document_id, file_path) ==
    LET path == ensure_docx_extension(file_path) IN
    IF document_id = "" THEN Failed("EmptyId")
    ELSE IF file_path = "" THEN Failed("EmptyPath")
    ELSE IF ~PathExists(path) THEN Failed("NotFound")
    ELSE IF document_id \in OpenIds THEN Failed("Conflict")
    ELSE IF path \in CorruptFiles THEN Failed("InvalidInput")
    ELSE [kind |-> "Ok",
          documents |-> Append(documents,
                          [hid |-> created + 1,
                           document_id |-> document_id,
                           file_path |-> path,
                           metadata |-> FileMetadata(path),
                           websocket_connection |-> None]),
          active |-> IF active = None THEN document_id ELSE active]

\* the state a call of open_document leaves
OpenStep(document_id, file_path) ==
    LET r == open_document(document_id, file_path) IN
    /\ r.kind = "Ok" => created < MaxHandles
    /\ documents' = r.documents
    /\ active' = r.active
    /\ created' = IF r.kind = "Ok" THEN created + 1 ELSE created

\* session_tools.open_document(document_id, file_path)
OpenCall(document_id, file_path) ==
    /\ OpenStep(document_id, file_path)
    /\ result' = Res("open", document_id, open_document(document_id, file_path).kind)
    /\ UNCHANGED <<pending_requests, futures, callers, sockets, tvars>>

OpenDocument ==
    \E document_id \in IdInputs, file_path \in PathInputs :
        OpenCall(document_id, file_path)

(***************************************************************************)
(* DocumentSessionManager.close_document                                   *)
(***************************************************************************)
\* close_document that forgets to move the active pointer
close_document_keep_active(document_id) ==
    IF document_id \notin OpenIds THEN Failed("NotFound")
    ELSE [kind |-> "Ok",
          documents |-> RemoveAt(documents, get_document(document_id)),
          active |-> active]

close_document(document_id) ==
    IF document_id \notin OpenIds THEN Failed("NotFound")
    ELSE LET rest == RemoveAt(documents, get_document(document_id))
         IN [kind |-> "Ok",
             documents |-> rest,
             active |-> IF active = document_id
                        THEN (IF rest # <<>> THEN rest[1].document_id ELSE None)
                        ELSE active]

CloseStep(document_id) ==
    LET r == close_document(document_id) IN
    /\ documents' = r.documents
    /\ active' = r.active

\* session_tools.close_document(document_id)
CloseCall(document_id) ==
    /\ CloseStep(document_id)
    /\ result' = Res("close", document_id, close_document(document_id).kind)
    /\ UNCHANGED <<created, pending_requests, futures, callers, sockets, tvars>>

CloseDocument ==
    \E document_id \in IdInputs : CloseCall(document_id)

(***************************************************************************)
(* DocumentSessionManager.set_active_document                              *)
(***************************************************************************)
set_active_document(document_id) ==
    IF document_id \notin OpenIds THEN Failed("NotFound")
    ELSE [kind |-> "Ok", documents |-> documents, active |-> document_id]

SetActiveDocument ==
    \E document_id \in IdInputs :
        /\ active' = set_active_document(document_id).active
        /\ result' = Res("set_active", document_id, set_active_document(document_id).kind)
        /\ UNCHANGED <<documents, created, pending_requests, futures, callers, sockets, tvars>>

(***************************************************************************)
(* DocumentSessionManager.close_all_documents                              *)
(***************************************************************************)
close_all_documents == [kind |-> "Ok", documents |-> <<>>, active |-> None]

CloseAllStep ==
    /\ documents' = close_all_documents.documents
    /\ active' = close_all_documents.active

CloseAllDocuments ==
    /\ CloseAllStep
    /\ result' = Res("close_all", None, "Ok")
    /\ UNCHANGED <<created, pending_requests, futures, callers, sockets, tvars>>

(***************************************************************************)
(* session_tools.list_open_documents                                       *)
(***************************************************************************)
ListOpenDocuments ==
    /\ result' = [Res("list", None, "Ok") EXCEPT !.report = list_open_documents]
    /\ UNCHANGED <<documents, created, pending_requests, active, futures, callers, sockets, tvars>>

(***************************************************************************)
(* DocumentHandle.register_websocket / unregister_websocket                *)
(***************************************************************************)
\* _documents after the handle at position i registers websocket
register_websocket(i, websocket) ==
    [documents EXCEPT ![i].websocket_connection = websocket]

\* unregister_websocket that drops the connection only
unregister_websocket_no_cancel(i) ==
    [documents |-> [documents EXCEPT ![i].websocket_connection = None],
     futures |-> futures,
     pending_requests |-> pending_requests]

\* what unregister_websocket leaves, for the handle at position i
unregister_websocket(i) ==
    IF documents[i].websocket_connection # None
    THEN [documents |-> [documents EXCEPT ![i].websocket_connection = None],
          futures |-> [c \in Cids |->
                         IF c \in pending_requests[documents[i].hid]
                            /\ futures[c].state = "pending"
                         THEN [futures[c] EXCEPT !.state = "cancelled"]
                         ELSE futures[c]],
          pending_requests |-> [pending_requests EXCEPT ![documents[i].hid] = {}]]
    ELSE [documents |-> documents, futures |-> futures,
          pending_requests |-> pending_requests]

(***************************************************************************)
(* DocumentSessionManager.register_live_connection                         *)
(***************************************************************************)
register_live_connection(document_id, websocket) ==
    LET i == get_document(document_id) IN
    IF i = 0
    THEN UNCHANGED documents
    ELSE documents' = register_websocket(i, websocket)

(***************************************************************************)
(* DocumentSessionManager.unregister_live_connection                       *)
(***************************************************************************)
unregister_live_connection(document_id) ==
    LET i == get_document(document_id) IN
    IF i = 0
    THEN UNCHANGED <<documents, futures, pending_requests>>
    ELSE LET u == unregister_websocket(i) IN
         /\ documents' = u.documents
         /\ futures' = u.futures
         /\ pending_requests' = u.pending_requests

\* a direct call of unregister_live_connection
UnregisterCall(document_id) ==
    /\ UNCHANGED <<created, active, callers, sockets, result, tvars>>
    /\ unregister_live_connection(document_id)

UnregisterLiveConnection ==
    \E document_id \in Ids : UnregisterCall(document_id)

(***************************************************************************)
(* main.websocket_handler: one connection per socket object                *)
(***************************************************************************)
\* a Word add-in connects: registered_document_id = None
WsConnect ==
    \E s \in Sockets :
        /\ sockets[s].state = "new"
        /\ sockets' = [sockets EXCEPT ![s] =
                          [state |-> "open", registered_document_id |-> None]]
        /\ UNCHANGED <<documents, created, pending_requests, active, futures,
                       callers, result, tvars>>

\* a "register" message: the socket is made the live connection of the first
\* document id, in dict order, whose file_path equals path
WsRegister ==
    \E s \in Sockets, path \in {"f1.docx", "f2.docx"} :
        LET hits == {i \in 1..Len(documents) : documents[i].file_path = path}
            document_id ==
                IF path = "" \/ hits = {} THEN None
                ELSE documents[CHOOSE i \in hits : \A j \in hits : i <= j]
                        .document_id
        IN /\ sockets[s].state = "open"
           /\ IF document_id = None
              THEN UNCHANGED <<documents, sockets>>
              ELSE /\ register_live_connection(document_id, s)
                   /\ sockets' = [sockets EXCEPT
                                     ![s].registered_document_id = document_id]
           /\ UNCHANGED <<created, pending_requests, active, futures, callers,
                          result, tvars>>

(***************************************************************************)
(* DocumentSessionManager.handle_live_response                             *)
(***************************************************************************)
\* future.set_result / set_exception: InvalidStateError on a done future,
\* which websocket_handler's per-message handler swallows
SetFuture(c, data) ==
    IF futures[c].state = "pending"
    THEN [futures EXCEPT ![c] =
            IF data.status = "success"
            THEN [state |-> "result", value |-> data.data]
            ELSE [state |-> "exception", value |-> data.error]]
    ELSE futures

\* handle_live_response that looks the correlation id up in every open handle
handle_live_response_any_handle(websocket, correlation_id, data) ==
    LET owners == {i \in 1..Len(documents) :
                     correlation_id \in pending_requests[documents[i].hid]}
    IN IF owners = {}
       THEN UNCHANGED <<pending_requests, futures>>
       ELSE LET i == CHOOSE j \in owners : TRUE IN
            /\ pending_requests' =
                 [pending_requests EXCEPT ![documents[i].hid] = @ \ {correlation_id}]
            /\ futures' = SetFuture(correlation_id, data)

handle_live_response(websocket, correlation_id, data) ==
    LET document_id == find_document_by_websocket(websocket)
        i == get_document(document_id)
    IN IF document_id = None \/ i = 0
       THEN UNCHANGED <<pending_requests, futures>>
       ELSE IF correlation_id \in pending_requests[documents[i].hid]
       THEN /\ pending_requests' =
                 [pending_requests EXCEPT ![documents[i].hid] = @ \ {correlation_id}]
            /\ futures' = SetFuture(correlation_id, data)
       ELSE UNCHANGED <<pending_requests, futures>>

\* a "response" message from socket s
ResponseCall(s, correlation_id, data) ==
    /\ sockets[s].state = "open"
    /\ UNCHANGED <<documents, created, active, callers, sockets, result, tvars>>
    /\ handle_live_response(s, correlation_id, data)

WsResponse ==
    \E s \in Sockets, correlation_id \in Cids, data \in ResponseData :
        ResponseCall(s, correlation_id, data)

(***************************************************************************)
(* main.websocket_handler, finally: the socket disconnects                 *)
(***************************************************************************)
\* the socket closes: its document, if it registered one, is detached
WsDisconnect ==
    \E s \in Sockets :
        /\ sockets[s].state = "open"
        /\ IF sockets[s].registered_document_id # None
           THEN unregister_live_connection(sockets[s].registered_document_id)
           ELSE UNCHANGED <<documents, futures, pending_requests>>
        /\ sockets' = [sockets EXCEPT ![s].state = "closed"]
        /\ UNCHANGED <<created, active, callers, result, tvars>>

(***************************************************************************)
(* DocumentSessionManager.send_live_request                                *)
(***************************************************************************)
\* the correlation id uuid4 produces: one never used before
FreshCid ==
    CHOOSE c \in Cids : /\ callers[c].pc = "idle"
                        /\ \A b \in Cids : callers[b].pc = "idle" => c <= b

\* up to the await: check, register the future, send
send_live_request(document_id) ==
    LET i == get_document(document_id) IN
    IF i = 0 \/ ~is_document_live(document_id)
    THEN UNCHANGED <<pending_requests, futures, callers>>
    ELSE /\ \E c \in Cids : callers[c].pc = "idle"
         /\ LET c == FreshCid
                h == documents[i].hid
            IN
            IF sockets[documents[i].websocket_connection].state = "open"
            THEN /\ futures' = [futures EXCEPT ![c] = [state |-> "pending", value |-> None]]
                 /\ pending_requests' = [pending_requests EXCEPT ![h] = @ \cup {c}]
                 /\ callers' = [callers EXCEPT ![c] =
                                   [pc |-> "awaiting", hid |-> h]]
            ELSE \* send() raises on the closed socket: pop and re-raise
                 /\ futures' = [futures EXCEPT ![c] = [state |-> "pending", value |-> None]]
                 /\ pending_requests' = [pending_requests EXCEPT ![h] = @ \ {c}]
                 /\ callers' = [callers EXCEPT ![c] =
                                   [pc |-> "raised_send", hid |-> h]]

SendLiveRequest ==
    \E document_id \in Ids :
        /\ send_live_request(document_id)
        /\ UNCHANGED <<documents, created, active, sockets, result, tvars>>

\* asyncio.wait_for: the 60 seconds pass, the awaited future is cancelled
TimeoutExpire ==
    \E c \in Cids :
        /\ callers[c].pc = "awaiting"
        /\ futures[c].state = "pending"
        /\ futures' = [futures EXCEPT ![c].state = "cancelled"]
        /\ callers' = [callers EXCEPT ![c].pc = "timing_out"]
        /\ UNCHANGED <<documents, created, pending_requests, active, sockets, result, tvars>>

\* the timeout handler without the pop
timeout_cleanup_no_pop(c) ==
    /\ UNCHANGED pending_requests
    /\ callers' = [callers EXCEPT ![c].pc = "raised_timeout"]

\* the timeout handler that pops the entry and never raises
timeout_cleanup_no_raise(c) ==
    /\ pending_requests' = [pending_requests EXCEPT ![callers[c].hid] = @ \ {c}]
    /\ UNCHANGED callers

\* except asyncio.TimeoutError: pop the entry, raise TimeoutError
timeout_cleanup(c) ==
    /\ pending_requests' = [pending_requests EXCEPT ![callers[c].hid] = @ \ {c}]
    /\ callers' = [callers EXCEPT ![c].pc = "raised_timeout"]

TimeoutCleanup ==
    \E c \in Cids :
        /\ callers[c].pc = "timing_out"
        /\ timeout_cleanup(c)
        /\ UNCHANGED <<documents, created, active, futures, sockets, result, tvars>>

\* how the send_live_request call of correlation id c has ended, if it has:
\* the awaited future's result, its exception or its cancellation, the
\* Timeout failure, or the failure of send()
Outcome(c) ==
    CASE callers[c].pc = "raised_timeout" -> "Timeout"
      [] callers[c].pc = "raised_send" -> "SendFailed"
      [] callers[c].pc = "awaiting" /\ futures[c].state = "result" -> "Returned"
      [] callers[c].pc = "awaiting" /\ futures[c].state = "exception" -> "Raised"
      [] callers[c].pc = "awaiting" /\ futures[c].state = "cancelled" -> "Cancelled"
      [] OTHER -> None

\* tool calls that open and close documents while live editing goes on
LiveOpen ==
    \E document_id \in Ids, file_path \in {"f1", "f2.docx"} :
        /\ OpenStep(document_id, file_path)
        /\ UNCHANGED <<pending_requests, futures, callers, sockets, result, tvars>>

LiveClose ==
    \E document_id \in Ids :
        /\ CloseStep(document_id)
        /\ UNCHANGED <<created, pending_requests, futures, callers, sockets, result, tvars>>

LiveCloseAll ==
    /\ CloseAllStep
    /\ UNCHANGED <<created, pending_requests, futures, callers, sockets, result, tvars>>

(***************************************************************************)
(* enhanced_search_and_replace (content_tools.py): one paragraph of the    *)
(* document, as its runs in order.  A run is its text, a sequence of       *)
(* characters, and its bold attribute (None, "True" or "False").           *)
(***************************************************************************)
\* number of runs of the paragraph before the call
MaxRuns == 3

\* the paragraphs: up to MaxRuns runs, a run the text of one of the runs the
\* test document is built from (create_test_document.py) and its bold
\* attribute
Paragraphs ==
    LET RunTexts == {<<"c">>,
                     <<"{", "x", "}">>,
                     <<"a", "{", "x", "}", "b">>,
                     <<"a", "{">>,
                     <<"x", "}", "b">>,
                     <<"{", "x", "}", "c", "{", "y", "}">>}
        Runs == [text : RunTexts, bold : {None, "True"}]
    IN UNION {[1..n -> Runs] : n \in 0..MaxRuns}

\* the regular expression \{[^}]+\} of the test scripts, token by token
BracePattern == <<"\\{", "[^}]+", "\\}">>
\* the group reference \g<0> of a replacement template
Group0 == "\\g<0>"

\* para.text: the texts of the runs, concatenated in order
RECURSIVE para_text(_)
para_text(runs) ==
    IF runs = <<>> THEN <<>> ELSE Head(runs).text \o para_text(Tail(runs))

\* the pattern the paragraph is searched with: find_text, or
\* re.escape(find_text)
search_pattern(find_text, use_regex) ==
    LET \* re.escape on one character
        escape_char(ch) ==
            CASE ch = "{" -> "\\{"
              [] ch = "}" -> "\\}"
              [] OTHER -> ch
    IN IF use_regex THEN find_text
       ELSE [i \in 1..Len(find_text) |-> escape_char(find_text[i])]

\* the regex engine at offset i: end offset of the match of pattern[k..],
\* -1 when there is none; [^}]+ is greedy and backtracks
RECURSIVE match_here(_, _, _, _)
match_here(pattern, k, text, i) ==
    LET \* one pattern token against one character
        token_matches(tok, ch) ==
            CASE tok = "\\{" -> ch = "{"
              [] tok = "\\}" -> ch = "}"
              [] OTHER -> tok = ch
        \* number of characters other than "}" that follow offset i
        ns == {n \in 0..(Len(text) - i) : \A j \in 1..n : text[i + j] # "}"}
        non_brace_run == CHOOSE n \in ns : \A m \in ns : m <= n
    IN IF k > Len(pattern) THEN i
       ELSE IF pattern[k] = "[^}]+"
       THEN LET ok == {n \in 1..non_brace_run :
                           match_here(pattern, k + 1, text, i + n) # -1}
            IN IF ok = {} THEN -1
               ELSE match_here(pattern, k + 1, text,
                               i + (CHOOSE n \in ok : \A m \in ok : m <= n))
       ELSE IF i < Len(text) /\ token_matches(pattern[k], text[i + 1])
       THEN match_here(pattern, k + 1, text, i + 1)
       ELSE -1

\* re.finditer from offset i: the non-overlapping matches, left to right,
\* as [start, end) offsets
RECURSIVE finditer_from(_, _, _)
finditer_from(pattern, text, i) ==
    IF i >= Len(text) THEN <<>>
    ELSE LET e == match_here(pattern, 1, text, i)
         IN IF e > i
            THEN <<[start |-> i, end |-> e]>> \o finditer_from(pattern, text, e)
            ELSE finditer_from(pattern, text, i + 1)

finditer(pattern, text) == finditer_from(pattern, text, 0)

\* match.expand(template): \g<0> stands for the matched text
RECURSIVE expand(_, _)
expand(template, group0) ==
    IF template = <<>> THEN <<>>
    ELSE (IF Head(template) = Group0 THEN group0 ELSE <<Head(template)>>)
             \o expand(Tail(template), group0)

\* the replacement text of one match
actual_replace_text(request, text, match) ==
    IF request.texts.use_regex
    THEN expand(request.texts.replace_text,
                SubSeq(text, match.start + 1, match.end))
    ELSE request.texts.replace_text

\* lines 648-668: the walk over the runs that finds the run holding the first
\* character of the span and the run holding its last one; run indices count
\* from 1 and 0 is None
RECURSIVE locate_from(_, _, _, _, _, _)
locate_from(runs, run_idx, current_pos, start_pos, end_pos, found) ==
    IF run_idx > Len(runs)
    THEN [start_run_idx |-> found.idx, start_run_offset |-> found.offset,
          end_run_idx |-> 0, end_run_offset |-> 0]
    ELSE LET run_length == Len(runs[run_idx].text)
             start == IF /\ found.idx = 0
                         /\ current_pos <= start_pos
                         /\ start_pos < current_pos + run_length
                      THEN [idx |-> run_idx, offset |-> start_pos - current_pos]
                      ELSE found
         IN IF current_pos < end_pos /\ end_pos <= current_pos + run_length
            THEN [start_run_idx |-> start.idx,
                  start_run_offset |-> start.offset,
                  end_run_idx |-> run_idx,
                  end_run_offset |-> end_pos - current_pos]
            ELSE locate_from(runs, run_idx + 1, current_pos + run_length,
                             start_pos, end_pos, start)

\* Paragraph.add_run(text): a new run, appended after the last run
add_run(runs, text) == Append(runs, [text |-> text, bold |-> None])

\* _copy_run_formatting that copies nothing: the target keeps the formatting
\* add_run gave it
_copy_run_formatting_nothing(source_run, target_run) == target_run

\* _copy_run_formatting(source_run, target_run)
_copy_run_formatting(source_run, target_run) ==
    [target_run EXCEPT !.bold = source_run.bold]

\* _apply_formatting_to_run(run, bold, ...)
_apply_formatting_to_run(run, bold) ==
    IF bold # None THEN [run EXCEPT !.bold = bold] ELSE run

\* formatting of the run just added (the last one): copied from the source
\* run, the requested attributes on top when apply_formatting
format_new_run(runs, source_run, format) ==
    LET copied == _copy_run_formatting(source_run, runs[Len(runs)])
    IN [runs EXCEPT ![Len(runs)] =
            IF format.apply_formatting
            THEN _apply_formatting_to_run(copied, format.bold)
            ELSE copied]

\* lines 674-697: the span lies in one run
replace_in_single_run(runs, at, replacement, format) ==
    LET run_idx == at.start_run_idx
        old_text == runs[run_idx].text
        before_text == SubSeq(old_text, 1, at.start_run_offset)
        after_text == SubSeq(old_text, at.end_run_offset + 1, Len(old_text))
        truncated == [runs EXCEPT ![run_idx].text = before_text]
        with_new == format_new_run(add_run(truncated, replacement),
                                   truncated[run_idx], format)
    IN IF after_text # <<>>
       THEN LET with_after == add_run(with_new, after_text)
            IN [with_after EXCEPT ![Len(with_after)] =
                    _copy_run_formatting(truncated[run_idx], @)]
       ELSE with_new

\* lines 699-720: the span covers several runs
replace_across_runs(runs, at, replacement, format) ==
    LET cleared ==
            [i \in 1..Len(runs) |->
                IF i = at.start_run_idx
                THEN [runs[i] EXCEPT
                        !.text = SubSeq(@, 1, at.start_run_offset)]
                ELSE IF i = at.end_run_idx
                THEN [runs[i] EXCEPT
                        !.text = SubSeq(@, at.end_run_offset + 1, Len(@))]
                ELSE IF at.start_run_idx < i /\ i < at.end_run_idx
                THEN [runs[i] EXCEPT !.text = <<>>]
                ELSE runs[i]]
    IN format_new_run(add_run(cleared, replacement),
                      cleared[at.start_run_idx], format)

\* lines 637-720: one match of the paragraph
replace_match(runs, match, replacement, format) ==
    LET at == locate_from(runs, 1, 0, match.start, match.end,
                          [idx |-> 0, offset |-> 0])
    IN IF at.start_run_idx = 0 \/ at.end_run_idx = 0 THEN runs
       ELSE IF at.start_run_idx = at.end_run_idx
       THEN replace_in_single_run(runs, at, replacement, format)
       ELSE replace_across_runs(runs, at, replacement, format)

\* the loop over reversed(matches): the first k matches are still to do and
\* the k-th is done next; the offsets are those of the text before the call
RECURSIVE replace_matches(_, _, _, _, _)
replace_matches(runs, text, matches, k, request) ==
    IF k = 0 THEN runs
    ELSE replace_matches(
             replace_match(runs, matches[k],
                           actual_replace_text(request, text, matches[k]),
                           request.format),
             text, matches, k - 1, request)

\* _enhanced_replace_in_paragraphs on the paragraph
_enhanced_replace_in_paragraphs(runs, request) ==
    LET text == para_text(runs)
        matches == finditer(search_pattern(request.texts.find_text,
                                           request.texts.use_regex), text)
    IN [count |-> Len(matches),
        runs |-> replace_matches(runs, text, matches, Len(matches), request)]

\* enhanced_search_and_replace: the message and the paragraph saved
enhanced_search_and_replace(runs, request) ==
    IF request.texts.find_text = <<>>
    THEN [kind |-> "FindTextRequired", count |-> 0, runs |-> runs]
    ELSE IF request.texts.replace_text = <<>>
    THEN [kind |-> "ReplaceTextRequired", count |-> 0, runs |-> runs]
    ELSE LET r == _enhanced_replace_in_paragraphs(runs, request)
         IN IF r.count > 0
            THEN [kind |-> "Replaced", count |-> r.count, runs |-> r.runs]
            ELSE [kind |-> "NoOccurrences", count |-> 0, runs |-> runs]

(***************************************************************************)
(* get_text (document_tools.py).  A document is the sequence of its        *)
(* paragraphs, a paragraph the sequence of its characters.                 *)
(***************************************************************************)
\* what the add-in holds for the document: the content of payload "p1"
LiveContent == <<<<"n", "e", "w">>, <<"a">>>>
\* what a file on disk may hold
DiskDocs == {<<<<"o", "l", "d">>>>, LiveContent}
\* the files that hold documents
DocFiles == {"f1.docx", "f2.docx"}

\* scope arguments: the four scopes and one that is none of them
ValidScopes == {"all", "paragraph", "search", "range"}
\* the search_term argument
SearchTerm == <<"a">>
\* the start_paragraph and end_paragraph arguments
RangeStart == 0
RangeEnd == 0
NoArgs == [document_id |-> None, scope |-> None, include_formatting |-> FALSE,
           paragraph_index |-> 0]
\* what get_text returns: the kind of answer, the paragraphs in it, a count
Answer(kind, content, count) ==
    [kind |-> kind, content |-> content, count |-> count]
NoAnswer == Answer(None, <<>>, 0)

\* DocumentSessionManager.validate_document_id: "" when the id is open
validate_document_id(document_id) ==
    IF document_id = "" THEN "IdRequired"
    ELSE IF document_id \notin OpenIds THEN "NotFound"
    ELSE ""

\* DocumentSessionManager.get_document_path: the handle's file_path, or None
get_document_path(document_id) ==
    LET i == get_document(document_id)
    IN IF i = 0 THEN None ELSE documents[i].file_path

\* str.strip on the filename arguments
strip(filename) ==
    CASE filename = " f1 " -> "f1"
      [] filename = " " -> ""
      [] OTHER -> filename

\* resolve_document_path that falls back on the filename when the id given
\* with it is not open
resolve_document_path_filename_fallback(document_id, filename) ==
    IF document_id = "" /\ filename = ""
    THEN [path |-> "", error |-> "EitherRequired"]
    ELSE IF document_id # "" /\ validate_document_id(document_id) = ""
    THEN [path |-> get_document_path(document_id), error |-> ""]
    ELSE IF filename # ""
    THEN [path |-> ensure_docx_extension(strip(filename)), error |-> ""]
    ELSE [path |-> "", error |-> validate_document_id(document_id)]

\* resolve_document_path(document_id, filename) -> (file_path, error_message);
\* an absent argument (None) is the empty string
resolve_document_path(document_id, filename) ==
    IF document_id = "" /\ filename = ""
    THEN [path |-> "", error |-> "EitherRequired"]
    ELSE IF document_id # "" /\ filename # ""
    THEN IF validate_document_id(document_id) # ""
         THEN [path |-> "",
               \* "Both document_id and filename provided, but ..."
               error |-> IF validate_document_id(document_id) = "NotFound"
                         THEN "BothProvided:NotFound"
                         ELSE "BothProvided:IdRequired"]
         ELSE [path |-> get_document_path(document_id), error |-> ""]
    ELSE IF document_id # ""
    THEN IF validate_document_id(document_id) # ""
         THEN [path |-> "", error |-> validate_document_id(document_id)]
         ELSE IF get_document_path(document_id) \in {None, ""}
         THEN [path |-> "", error |-> "NoPath"]
         ELSE [path |-> get_document_path(document_id), error |-> ""]
    ELSE [path |-> ensure_docx_extension(strip(filename)), error |-> ""]

\* ooxml_response.get("content") and its parse into a Document
response_content(value) == IF value = "p1" THEN LiveContent ELSE <<>>

\* Document(filename): the paragraphs of the file
read_document(files, filename) == files[filename]

\* str.find(sub, start): offset of the first occurrence at or after start
str_find(text, sub, start) ==
    LET hits == {p \in start..(Len(text) - Len(sub)) :
                    SubSeq(text, p + 1, p + Len(sub)) = sub}
    IN IF hits = {} THEN -1 ELSE CHOOSE p \in hits : \A q \in hits : p <= q

\* the paragraphs of doc that hold the search term
occurrences(doc, term) ==
    SelectSeq(doc, LAMBDA p : str_find(p, term, 0) # -1)

\* utils.document_utils.extract_document_text(filename): the text of the file
extract_document_text(files, filename) ==
    Answer("Text", read_document(files, filename), 0)

\* utils.extended_document_utils.get_paragraph_text(filename, paragraph_index)
get_paragraph_text(files, filename, paragraph_index) ==
    LET doc == read_document(files, filename)
    IN IF paragraph_index >= Len(doc)
       THEN Answer("ParagraphError", <<>>, Len(doc))
       ELSE Answer("Paragraph", <<doc[paragraph_index + 1]>>, 0)

\* utils.extended_document_utils.find_text(filename, search_term, ...)
find_text(files, filename, term) ==
    LET found == occurrences(read_document(files, filename), term)
    IN Answer("Search", found, Len(found))

\* lines 365-614: the answer for the scope, from the loaded doc; live is what
\* is_document_live(document_id) answers at this point
serve_scope(args, doc, live, files, filename) ==
    CASE args.scope = "all" ->
            IF ~args.include_formatting
            THEN IF live THEN Answer("Text", doc, 0)
                 ELSE extract_document_text(files, filename)
            ELSE Answer("Json", doc, 0)
      [] args.scope = "paragraph" ->
            IF args.paragraph_index >= Len(doc)
            THEN Answer("InvalidIndex", <<>>, Len(doc))
            ELSE IF ~args.include_formatting
            THEN get_paragraph_text(files, filename, args.paragraph_index)
            ELSE Answer("ParagraphJson", <<doc[args.paragraph_index + 1]>>, 0)
      [] args.scope = "search" ->
            IF ~args.include_formatting
            THEN IF live
                 THEN \* lines 431-478: the search on the live document;
                      \* match.start() of the ad-hoc Match object raises
                      \* TypeError, which line 613 turns into a message
                      IF occurrences(doc, SearchTerm) # <<>>
                      THEN Answer("FailedToExtract", <<>>, 0)
                      ELSE Answer("Search", <<>>, 0)
                 ELSE find_text(files, filename, SearchTerm)
            ELSE LET found == occurrences(doc, SearchTerm)
                 IN Answer("SearchJson", found, Len(found))
      [] args.scope = "range" ->
            IF RangeStart >= Len(doc) \/ RangeEnd >= Len(doc)
            THEN Answer("InvalidRange", <<>>, Len(doc))
            ELSE Answer(IF args.include_formatting THEN "RangeJson" ELSE "Range",
                        SubSeq(doc, RangeStart + 1, RangeEnd + 1), 0)

\* get_text returns
get_text_done(args, filename, answer) ==
    get_text_call' = [pc |-> "done", args |-> args, cid |-> get_text_call.cid,
                      filename |-> filename, result |-> answer]

\* get_text, lines 196-274 and, in file mode, the rest: up to the await or
\* the return.  paragraph_index is given for scope "paragraph"; the scopes
\* are the four valid ones and one that is none of them.
GetText ==
    \E args \in {a \in [document_id : Ids,
                        scope : ValidScopes \cup {"chapter"},
                        include_formatting : BOOLEAN,
                        paragraph_index : {0, 1}] :
                    a.scope # "paragraph" => a.paragraph_index = 0} :
        LET resolved == resolve_document_path(args.document_id, "")
            filename == IF resolved.error = "" THEN resolved.path ELSE None
        IN
        /\ get_text_call.pc = "idle"
        /\ UNCHANGED <<documents, created, active, sockets, result, disk>>
        /\ besides("get_text")
        /\ IF filename = None
           THEN /\ get_text_done(args, filename, Answer("NotFound", <<>>, 0))
                /\ UNCHANGED <<pending_requests, futures, callers>>
           ELSE IF args.scope \notin ValidScopes
           THEN /\ get_text_done(args, filename, Answer("InvalidScope", <<>>, 0))
                /\ UNCHANGED <<pending_requests, futures, callers>>
           ELSE IF is_document_live(args.document_id)
           THEN /\ send_live_request(args.document_id)
                /\ IF callers'[FreshCid].pc = "awaiting"
                   THEN get_text_call' = [pc |-> "awaiting", args |-> args,
                                          cid |-> FreshCid, filename |-> filename,
                                          result |-> NoAnswer]
                   ELSE get_text_call' = [pc |-> "done", args |-> args,
                                          cid |-> FreshCid, filename |-> filename,
                                          result |-> Answer("FailedLive", <<>>, 0)]
           ELSE /\ get_text_done(args, filename,
                        serve_scope(args, read_document(disk, filename), FALSE,
                                    disk, filename))
                /\ UNCHANGED <<pending_requests, futures, callers>>

\* the answer once send_live_request has ended with this outcome
live_answer(args, outcome, value, live, files, filename) ==
    CASE outcome = "Returned" ->
            IF response_content(value) = <<>>
            THEN Answer("NoContent", <<>>, 0)
            ELSE serve_scope(args, response_content(value), live, files, filename)
      [] outcome = "Cancelled" -> Answer("CancelledError", <<>>, 0)
      [] OTHER -> Answer("FailedLive", <<>>, 0)

\* lines 255-265 and the rest: the coroutine resumes after the await
GetTextResume ==
    /\ get_text_call.pc = "awaiting"
    /\ Outcome(get_text_call.cid) # None
    /\ get_text_done(get_text_call.args, get_text_call.filename,
          live_answer(get_text_call.args, Outcome(get_text_call.cid),
                      futures[get_text_call.cid].value,
                      is_document_live(get_text_call.args.document_id),
                      disk, get_text_call.filename))
    /\ UNCHANGED <<svars, disk>>
    /\ besides("get_text")

(***************************************************************************)
(* session_utils.resolve_document_path as the tools call it                *)
(***************************************************************************)
\* one call of resolve_document_path.  The filename arguments: absent,
\* without and with the extension, with blanks around it, a file that does
\* not exist, blanks only.
ResolveDocumentPath ==
    \E document_id \in IdInputs,
       filename \in {"", "f1", " f1 ", "f2.docx", "gone.docx", " "} :
        /\ resolve_call' =
              [document_id |-> document_id, filename |-> filename,
               path |-> resolve_document_path(document_id, filename).path,
               error |-> resolve_document_path(document_id, filename).error]
        /\ UNCHANGED svars
        /\ besides("resolve")

(***************************************************************************)
(* review_tools.manage_comments.  The document is the sequence of its      *)
(* paragraphs; a paragraph text is a sequence of tokens, the pieces of a   *)
(* marker ("[", "COMMENT", "-", an id, " by ", ":", " ", "]") and letters. *)
(***************************************************************************)
\* number of comments added in one run
MaxComments == 2

\* the ids uuid.uuid4() hands out (their first 8 characters), in the order of
\* the add calls
uuid4 == <<"id1", "id2", "id3", "id4">>

\* str.replace(old, new): every occurrence, left to right
RECURSIVE str_replace(_, _, _)
str_replace(text, old, new) ==
    LET p == str_find(text, old, 0)
    IN IF p = -1 THEN text
       ELSE SubSeq(text, 1, p) \o new
               \o str_replace(SubSeq(text, p + Len(old) + 1, Len(text)), old, new)

\* f" [COMMENT-{comment_uuid} by {author_name}: {comment_text}]"
comment_marker(comment_uuid, author_name, comment_text) ==
    <<" ", "[", "COMMENT", "-", comment_uuid, " by ">> \o author_name
        \o <<":", " ">> \o comment_text \o <<"]">>

\* action "list", lines 159-180: comments_info, the matches of
\* r'\[(COMMENT|RESOLVED)-([a-f0-9]{8}) by ([^:]+): ([^\]]+)\]' in each
\* paragraph, in order.  In a match the author runs to the first ":" and the
\* text to the first "]".
list_comments(doc) ==
    LET \* the first position from `from` on (from 1; 0 if none) holding token
        first_token(text, token, from) ==
            LET hits == {k \in from..Len(text) : text[k] = token}
            IN IF hits = {} THEN 0
               ELSE CHOOSE k \in hits : \A j \in hits : k <= j
        \* the match at position i: end is the position of the closing "]",
        \* 0 when there is no match at i
        comment_match(text, i, para_idx) ==
            LET colon == first_token(text, ":", i + 5)
                close == IF colon = 0 THEN 0
                         ELSE first_token(text, "]", colon + 2)
                head == /\ i + 4 <= Len(text)
                        /\ text[i] = "["
                        /\ text[i + 1] \in {"COMMENT", "RESOLVED"}
                        /\ text[i + 2] = "-"
                        /\ \E n \in 1..Len(uuid4) : text[i + 3] = uuid4[n]
                        /\ text[i + 4] = " by "
            IN IF /\ head
                  /\ colon > i + 5
                  /\ colon + 1 <= Len(text)
                  /\ text[colon + 1] = " "
                  /\ close > colon + 2
               THEN [end |-> close,
                     entry |-> [id |-> text[i + 3],
                                author |-> SubSeq(text, i + 5, colon - 1),
                                \* status.lower()
                                status |-> IF text[i + 1] = "COMMENT"
                                           THEN "comment" ELSE "resolved",
                                text |-> SubSeq(text, colon + 2, close - 1),
                                paragraph_index |-> para_idx]]
               ELSE [end |-> 0, entry |-> <<>>]
        \* re.findall(pattern, text) from position i on
        RECURSIVE findall_comments(_, _, _)
        findall_comments(text, i, para_idx) ==
            IF i > Len(text) THEN <<>>
            ELSE LET m == comment_match(text, i, para_idx)
                 IN IF m.end # 0
                    THEN <<m.entry>>
                            \o findall_comments(text, m.end + 1, para_idx)
                    ELSE findall_comments(text, i + 1, para_idx)
        RECURSIVE list_from(_)
        list_from(n) ==
            IF n > Len(doc) THEN <<>>
            ELSE findall_comments(doc[n], 1, n - 1) \o list_from(n + 1)
    IN list_from(1)

\* manage_comments, lines 79-88 and 104-194, on the document file: what the
\* call returns and the paragraphs it saves
manage_comments(doc, action, paragraph_index, comment_text, author, comment_id, comment_uuid) ==
    LET \* f"[COMMENT-{comment_id}" and f"[RESOLVED-{comment_id}"
        start_marker(status) == <<"[", status, "-", comment_id>>
        \* lines 128-130: the first paragraph (from 1; 0 if none) that holds
        \* a marker of comment_id
        hits == {i \in 1..Len(doc) :
                    \/ str_find(doc[i], start_marker("COMMENT"), 0) # -1
                    \/ str_find(doc[i], start_marker("RESOLVED"), 0) # -1}
        found == IF hits = {} THEN 0
                 ELSE CHOOSE i \in hits : \A j \in hits : i <= j
        \* lines 144-152 for one start marker: the text without the span
        \* from the marker to the next "]", or the text itself when the
        \* marker or the "]" is not there
        cut_marker(text, marker) ==
            LET start_pos == str_find(text, marker, 0)
                end_pos == IF start_pos = -1 THEN -1
                           ELSE str_find(text, <<"]">>, start_pos)
            IN IF end_pos = -1 THEN text
               ELSE str_replace(text, SubSeq(text, start_pos + 1, end_pos + 1),
                                <<>>)
        as_comment == cut_marker(doc[found], start_marker("COMMENT"))
        as_resolved == cut_marker(doc[found], start_marker("RESOLVED"))
        answer(kind, id, listing, saved) ==
            [action |-> action, kind |-> kind, id |-> id,
             listing |-> listing, doc |-> saved]
    IN CASE action = "add" ->
            \* lines 104-124
            IF comment_text = <<>> THEN answer("TextRequired", "", <<>>, doc)
            ELSE IF paragraph_index >= Len(doc)
            THEN answer("OutOfRange", "", <<>>, doc)
            ELSE answer("Added", comment_uuid, <<>>,
                        [doc EXCEPT ![paragraph_index + 1] =
                            @ \o comment_marker(comment_uuid,
                                    IF author = <<>> THEN <<"User">> ELSE author,
                                    comment_text)])
         [] action \in {"resolve", "delete"} ->
            \* lines 126-156: delete cuts the first start marker that can be
            \* cut, and the call returns nothing when neither can
            IF comment_id = "" THEN answer("IdRequired", "", <<>>, doc)
            ELSE IF found = 0 THEN answer("NotFound", comment_id, <<>>, doc)
            ELSE IF action = "resolve"
            THEN answer("Resolved", comment_id, <<>>,
                        [doc EXCEPT ![found] =
                            str_replace(@, start_marker("COMMENT"),
                                        start_marker("RESOLVED"))])
            ELSE IF as_comment # doc[found]
            THEN answer("Deleted", comment_id, <<>>,
                        [doc EXCEPT ![found] = as_comment])
            ELSE IF as_resolved # doc[found]
            THEN answer("Deleted", comment_id, <<>>,
                        [doc EXCEPT ![found] = as_resolved])
            ELSE answer("None", comment_id, <<>>, doc)
         [] OTHER -> answer("Listed", "", list_comments(doc), doc)

\* one call of manage_comments on the document of two paragraphs; `added`
\* remembers what each accepted add was given.  The comment texts are plain,
\* with a closing bracket inside, and empty.
ManageComments ==
    \E action \in {"add", "resolve", "delete", "list"},
       paragraph_index \in {0, 1, 2},
       comment_text \in {<<"t">>, <<"t", "]", "u">>, <<>>},
       author \in {<<"A">>, <<>>},
       comment_id \in {uuid4[n] : n \in 1..MaxComments} \cup {""} :
        LET comment_uuid == uuid4[Len(added) + 1]
            r == manage_comments(cdoc, action, paragraph_index, comment_text,
                                 author, comment_id, comment_uuid)
        IN /\ action = "add" => Len(added) < MaxComments
           /\ cdoc' = r.doc
           /\ comment_call' = [action |-> r.action, kind |-> r.kind,
                               id |-> r.id, listing |-> r.listing]
           /\ added' = IF r.kind = "Added"
                       THEN Append(added, [id |-> comment_uuid,
                                           text |-> comment_text,
                                           author |-> author,
                                           paragraph_index |-> paragraph_index])
                       ELSE added
           /\ UNCHANGED svars
           /\ besides("comments")

(***************************************************************************)
(* review_tools.manage_track_changes.  The body of the document is the     *)
(* sequence of the children of its paragraph: plain runs (w:r), insertions *)
(* (w:ins, holding a run) and deletions (w:del, holding w:delText nodes).  *)
(***************************************************************************)
\* number of children of the paragraph
MaxElements == 3

\* the authors of tracked changes (w:author)
ChangeAuthors == {"X", "Y"}

\* the bodies a document may have: a run with text (w:r), an insertion of a
\* run (w:ins), a deletion (w:del), texts its w:delText nodes
TrackDocs ==
    LET TrackElements ==
            {[tag |-> "r", author |-> "", texts |-> <<"kept">>]}
                \cup {[tag |-> "ins", author |-> a, texts |-> <<"added">>] :
                         a \in ChangeAuthors}
                \cup {[tag |-> "del", author |-> a, texts |-> <<"removed">>] :
                         a \in ChangeAuthors}
                \cup {[tag |-> "del", author |-> "X", texts |-> <<>>]}
    IN UNION {[1..n -> TrackElements] : n \in 0..MaxElements}

\* manage_track_changes that looks the change ids up: with change_ids given
\* only the changes listed, by their position in the paragraph, are processed
manage_track_changes_listed_ids(body, action, change_ids, author_filter) ==
    LET id_of(i) == CASE i = 1 -> "1" [] i = 2 -> "2" [] i = 3 -> "3"
                      [] OTHER -> "4"
        selected(i, tag) ==
            /\ body[i].tag = tag
            /\ author_filter = "" \/ body[i].author = author_filter
            /\ \/ change_ids = <<>>
               \/ \E k \in 1..Len(change_ids) : change_ids[k] = id_of(i)
        gone == [tag |-> "gone", author |-> "", texts |-> <<>>]
        changes_processed ==
            Cardinality({i \in 1..Len(body) :
                            selected(i, "del") \/ selected(i, "ins")})
        accepted ==
            SelectSeq([i \in 1..Len(body) |->
                          IF selected(i, "del") THEN gone
                          ELSE IF selected(i, "ins")
                          THEN [tag |-> "r", author |-> "",
                                texts |-> body[i].texts]
                          ELSE body[i]],
                      LAMBDA e : e # gone)
        raises == \E i \in 1..Len(body) :
                     selected(i, "del") /\ body[i].texts # <<>>
        rejected ==
            SelectSeq([i \in 1..Len(body) |->
                          IF selected(i, "del") \/ selected(i, "ins")
                          THEN gone ELSE body[i]],
                      LAMBDA e : e # gone)
        answer(kind, saved, n) ==
            [kind |-> kind, body |-> saved, changes_processed |-> n]
    IN IF action = "" THEN answer("ActionRequired", body, 0)
       ELSE IF action \notin {"accept_all", "reject_all", "accept_selective",
                              "reject_selective"}
       THEN answer("InvalidAction", body, 0)
       ELSE IF /\ action \in {"accept_selective", "reject_selective"}
               /\ change_ids = <<>>
               /\ author_filter = ""
       THEN answer("InvalidParameter", body, 0)
       ELSE IF action \in {"accept_all", "accept_selective"}
       THEN answer("Processed", accepted, changes_processed)
       ELSE IF raises THEN answer("Failed", body, 0)
       ELSE answer("Processed", rejected, changes_processed)

\* manage_track_changes, lines 449-568: the new body of the file and what
\* the call reports; an exception leaves the file as it was (line 567)
manage_track_changes(body, action, change_ids, author_filter) ==
    LET \* lines 490 and 500: no filter, or the element's author is the filter
        selected(elem, tag) ==
            /\ elem.tag = tag
            /\ author_filter = "" \/ elem.author = author_filter
        changes_processed ==
            Len(SelectSeq(body, LAMBDA e : selected(e, "del")))
                + Len(SelectSeq(body, LAMBDA e : selected(e, "ins")))
        \* lines 483-508: selected deletions are removed, selected
        \* insertions are replaced by the run they hold
        without_del == SelectSeq(body, LAMBDA e : ~selected(e, "del"))
        accepted == [i \in 1..Len(without_del) |->
                        IF selected(without_del[i], "ins")
                        THEN [tag |-> "r", author |-> "",
                              texts |-> without_del[i].texts]
                        ELSE without_del[i]]
        \* lines 510-546: selected insertions are removed; for a selected
        \* deletion each w:delText is rebuilt as an xml.etree.ElementTree
        \* element, and parent.insert of that element into the lxml tree
        \* raises TypeError, so only deletions without w:delText get as far
        \* as being removed
        without_ins == SelectSeq(body, LAMBDA e : ~selected(e, "ins"))
        raises == \E i \in 1..Len(without_ins) :
                     /\ selected(without_ins[i], "del")
                     /\ without_ins[i].texts # <<>>
        rejected == SelectSeq(without_ins, LAMBDA e : ~selected(e, "del"))
        answer(kind, saved, n) ==
            [kind |-> kind, body |-> saved, changes_processed |-> n]
    IN IF action = "" THEN answer("ActionRequired", body, 0)
       ELSE IF action \notin {"accept_all", "reject_all", "accept_selective",
                              "reject_selective"}
       THEN answer("InvalidAction", body, 0)
       ELSE IF /\ action \in {"accept_selective", "reject_selective"}
               /\ change_ids = <<>>
               /\ author_filter = ""
       THEN answer("InvalidParameter", body, 0)
       ELSE IF action \in {"accept_all", "accept_selective"}
       THEN answer("Processed", accepted, changes_processed)
       ELSE IF raises THEN answer("Failed", body, 0)
       ELSE answer("Processed", rejected, changes_processed)

\* one call of manage_track_changes; "" is no action and no author_filter,
\* <<>> no change_ids
ManageTrackChanges ==
    \E action \in {"accept_all", "reject_all", "accept_selective",
                   "reject_selective", "", "merge"},
       change_ids \in {<<>>, <<"1">>},
       author_filter \in ChangeAuthors \cup {""} :
        LET r == manage_track_changes(tdoc, action, change_ids, author_filter)
        IN /\ tdoc' = r.body
           /\ track_call' = [action |-> action,
                             author_filter |-> author_filter,
                             change_ids |-> change_ids, kind |-> r.kind,
                             changes_processed |-> r.changes_processed]
           /\ UNCHANGED svars
           /\ besides("track_changes")

\* paragraph.text: the text of the runs that are children of the paragraph
RECURSIVE document_text(_)
document_text(body) ==
    IF body = <<>> THEN <<>>
    ELSE (IF Head(body).tag = "r" THEN Head(body).texts ELSE <<>>)
            \o document_text(Tail(body))

\* extract_track_changes, lines 233-272: insertions, then deletions
extract_track_changes(body) ==
    SelectSeq(body, LAMBDA e : e.tag = "ins")
        \o SelectSeq(body, LAMBDA e : e.tag = "del")

(***************************************************************************)
(* section_tools.get_sections: the section forest built from the           *)
(* paragraphs of the document, each a style name and a text.               *)
(***************************************************************************)
\* number of paragraphs of the document
MaxParagraphs == 3

\* the documents get_sections is called on: paragraphs of a style and a text
SectionDocs ==
    LET SectionParagraphs ==
            [style : {"Normal", "Heading 1", "Heading 2", "Heading 3"},
             text : {"Intro", "Background", "Methods"}]
    IN UNION {[1..n -> SectionParagraphs] : n \in 1..MaxParagraphs}

\* lines 309-314: int(style.name.replace('Heading ', '')), None for a style
\* that is no heading style
heading_level(style) ==
    CASE style = "Heading 1" -> 1
      [] style = "Heading 2" -> 2
      [] style = "Heading 3" -> 3
      [] OTHER -> 0

\* the first top-level section whatever the heading
parent_section_first(sections, level) == 1

\* lines 353-357: the last top-level section of a smaller level, or the last
\* top-level section
parent_section(sections, level) ==
    LET smaller == {j \in 1..Len(sections) : sections[j].level < level}
    IN IF smaller = {} THEN Len(sections)
       ELSE CHOOSE j \in smaller : \A k \in smaller : k <= j

\* get_sections with output_format "json", lines 304-387: the sections of
\* the answer
get_sections(paragraphs, max_level, include_subsections) ==
    LET \* lines 318-324
        section_info(n, level) ==
            [title |-> strip(paragraphs[n].text), level |-> level,
             paragraph_index |-> n - 1, content |-> <<>>,
             subsections |-> <<>>]
        \* lines 348-363: where the section of a heading goes; current is
        \* the place of current_section, <<top>> or <<top, sub>>
        add_section(acc, info) ==
            IF info.level = 1 \/ acc.sections = <<>> \/ ~include_subsections
            THEN [sections |-> Append(acc.sections, info),
                  current |-> <<Len(acc.sections) + 1>>]
            ELSE LET p == parent_section(acc.sections, info.level)
                 IN [sections |-> [acc.sections EXCEPT
                                      ![p].subsections = Append(@, info)],
                     current |-> <<p, Len(acc.sections[p].subsections) + 1>>]
        \* lines 365-387: a paragraph with text is content of
        \* current_section
        add_content(acc, n) ==
            LET item == [paragraph_index |-> n - 1,
                         text |-> strip(paragraphs[n].text)]
                c == acc.current
            IN IF c = <<>> \/ item.text = "" THEN acc
               ELSE IF Len(c) = 1
               THEN [acc EXCEPT !.sections[c[1]].content = Append(@, item)]
               ELSE [acc EXCEPT !.sections[c[1]].subsections[c[2]].content =
                                    Append(@, item)]
        \* the loop over the paragraphs from n on
        RECURSIVE section_forest(_, _)
        section_forest(n, acc) ==
            IF n > Len(paragraphs) THEN acc.sections
            ELSE LET level == heading_level(paragraphs[n].style)
                 IN section_forest(n + 1,
                        IF level # 0 /\ level <= max_level
                        THEN add_section(acc, section_info(n, level))
                        ELSE add_content(acc, n))
    IN section_forest(1, [sections |-> <<>>, current |-> <<>>])

\* one call of get_sections
GetSections ==
    \E max_level \in {1, 2, 3}, include_subsections \in BOOLEAN :
        /\ sections_call' =
              [max_level |-> max_level,
               include_subsections |-> include_subsections,
               sections |-> get_sections(sdoc, max_level, include_subsections)]
        /\ UNCHANGED <<sdoc, svars>>
        /\ besides("sections")

(***************************************************************************)
(* section_tools.generate_table_of_contents on a document whose paragraphs *)
(* are a style name and a text; a text is a sequence of tokens.            *)
(***************************************************************************)
\* number of paragraphs of the document before the first call
MaxTocParagraphs == 4
\* number of calls of generate_table_of_contents
MaxTocCalls == 2

\* the documents generate_table_of_contents is called on
TocDocs ==
    LET TocParagraphs ==
            [style : {"Normal", "Heading 1", "Heading 2"},
             text : {<<"Intro">>, <<"Background">>, <<"Methods">>}]
    IN UNION {[1..n -> TocParagraphs] : n \in 1..MaxTocParagraphs}

\* lines 569-571: the first paragraph (from 1; 0 if none) whose text is, or
\* holds, "table of contents" in any case
toc_position(doc) ==
    LET is_toc_heading(text) ==
            \/ text \in {<<"Contents">>, <<"TOC">>}
            \/ \E k \in 1..Len(text) : text[k] = "Table of Contents"
        hits == {i \in 1..Len(doc) : is_toc_heading(doc[i].text)}
    IN IF hits = {} THEN 0 ELSE CHOOSE i \in hits : \A j \in hits : i <= j

\* generate_table_of_contents, lines 544-640: what the call reports and the
\* paragraphs it saves
generate_table_of_contents(doc, max_level, update_existing) ==
    LET \* lines 548-560: the headings of a level up to max_level, in
        \* document order
        RECURSIVE collect_headings(_)
        collect_headings(n) ==
            IF n > Len(doc) THEN <<>>
            ELSE (IF /\ heading_level(doc[n].style) # 0
                     /\ heading_level(doc[n].style) <= max_level
                  THEN <<[level |-> heading_level(doc[n].style),
                          text |-> doc[n].text, index |-> n - 1]>>
                  ELSE <<>>)
                    \o collect_headings(n + 1)
        toc_headings == collect_headings(1)
        \* lines 579-584: a heading or Normal paragraph whose text holds
        \* the text of one of the headings
        looks_like_entry(paragraph) ==
            /\ heading_level(paragraph.style) # 0 \/ paragraph.style = "Normal"
            /\ \E h \in 1..Len(toc_headings) :
                  str_find(paragraph.text, toc_headings[h].text, 0) # -1
        \* lines 575-589: how many paragraphs from j on are taken for old
        \* entries
        RECURSIVE old_entries(_)
        old_entries(j) ==
            IF j > Len(doc) THEN 0
            ELSE IF looks_like_entry(doc[j]) THEN 1 + old_entries(j + 1)
            ELSE 0
        \* lines 599-601: four spaces for each level below the first, then
        \* the text
        toc_entry(heading) ==
            [style |-> "Normal",
             text |-> [n \in 1..(heading.level - 1) |-> "    "]
                         \o heading.text]
        \* lines 596-610 and 623-633: each entry in turn is put right after
        \* the ToC heading, paragraph i
        RECURSIVE insert_entries(_, _, _)
        insert_entries(d, i, h) ==
            IF h > Len(toc_headings) THEN d
            ELSE insert_entries(SubSeq(d, 1, i)
                                    \o <<toc_entry(toc_headings[h])>>
                                    \o SubSeq(d, i + 1, Len(d)),
                                i, h + 1)
        i == toc_position(doc)
        cut == IF update_existing THEN old_entries(i + 1) ELSE 0
        kept == SubSeq(doc, 1, i) \o SubSeq(doc, i + cut + 1, Len(doc))
        \* lines 615-621: the first paragraph is made the ToC heading
        titled == [doc EXCEPT ![1] = [style |-> "Heading 1",
                                      text |-> <<"Table of Contents">>]]
        \* line 636, doc.add_page_break(): a paragraph that holds a break
        \* and no text
        page_break == [style |-> "Normal", text |-> <<>>]
    IN IF toc_headings = <<>>
       THEN [kind |-> "NoHeadings", entries |-> 0, doc |-> doc]
       ELSE IF i # 0
       THEN [kind |-> IF update_existing THEN "updated" ELSE "created",
             entries |-> Len(toc_headings),
             doc |-> insert_entries(kept, i, 1)]
       ELSE [kind |-> IF update_existing THEN "updated" ELSE "created",
             entries |-> Len(toc_headings),
             doc |-> Append(insert_entries(titled, 1, 1), page_break)]

\* one call of generate_table_of_contents
GenerateTableOfContents ==
    \E max_level \in {1, 3}, update_existing \in BOOLEAN :
        LET r == generate_table_of_contents(tocdoc, max_level, update_existing)
        IN /\ Len(toc_log) < MaxTocCalls
           /\ tocdoc' = r.doc
           /\ toc_log' = Append(toc_log,
                                [max_level |-> max_level,
                                 update_existing |-> update_existing,
                                 kind |-> r.kind, entries |-> r.entries])
           /\ UNCHANGED svars
           /\ besides("toc")

(***************************************************************************)
(* protection_tools: signing a document and verifying the signature.  The  *)
(* document is the sequence of its paragraph texts, each a sequence of     *)
(* tokens; the sidecar files hold what the tools wrote to them.            *)
(***************************************************************************)
\* number of signing, verifying and editing operations in one run
MaxProtectOps == 3

\* hashlib.sha256(content.encode()).hexdigest() of the content
\* "\n".join(p.text for p in doc.paragraphs): one digest for each content
content_hash(doc) ==
    LET RECURSIVE join(_)
        join(texts) ==
            IF texts = <<>> THEN <<>>
            ELSE IF Len(texts) = 1 THEN texts[1]
            ELSE texts[1] \o <<"\n">> \o join(Tail(texts))
    IN [sha256 |-> join(doc)]

\* manage_protection with protection_type "signature": what the call
\* reports, the document and the .signature sidecar it leaves
manage_protection(doc, sidecar, action, signer_name) ==
    IF action = "protect"
    THEN \* lines 385-387 and 452-476: the hash of the content is taken,
         \* and making signature_data raises AttributeError (datetime is
         \* the module, line 11, and has no now), so the call fails before
         \* the sidecar and the document are written
         IF signer_name = ""
         THEN [kind |-> "SignerRequired", doc |-> doc, sidecar |-> sidecar]
         ELSE LET now_raises == TRUE
                  signature_data == [type |-> "signature",
                                     signer |-> signer_name,
                                     content_hash |-> content_hash(doc)]
              IN IF now_raises
                 THEN [kind |-> "Failed", doc |-> doc, sidecar |-> sidecar]
                 ELSE [kind |-> "Signed",
                       doc |-> Append(doc, <<"--- DIGITAL SIGNATURE ---",
                                             signer_name>>),
                       sidecar |-> signature_data]
    ELSE \* action "verify", lines 531-552
         [kind |-> IF sidecar.type = "none" THEN "NoSignature"
                   ELSE IF content_hash(doc) = sidecar.content_hash
                   THEN "Valid" ELSE "Modified",
          doc |-> doc, sidecar |-> sidecar]

\* core.protection.create_signature_info: signer and the hash of the content
\* of the document it is given
create_signature_info(doc, signer_name) ==
    [type |-> "signature", signer |-> signer_name,
     content_hash |-> content_hash(doc)]

\* add_digital_signature, lines 53-81: the signature info is made and stored
\* from the document as loaded, then the visible block is added and saved
add_digital_signature(doc, signer_name) ==
    [kind |-> "Signed",
     doc |-> doc \o << <<>>, <<"Digitally signed by: ", signer_name>> >>,
     sidecar |-> create_signature_info(doc, signer_name)]

\* verify_document without password, lines 103-140; the answer of
\* core.protection.verify_document_protection is returned when there is no
\* signature to check
verify_document(doc, sidecar) ==
    IF sidecar.type # "signature" THEN "Helper"
    ELSE IF content_hash(doc) # sidecar.content_hash THEN "Modified"
    ELSE "Valid"

\* one operation on the document, written to the log: a call of one of the
\* tools, or an edit that appends a paragraph.  signer_name "" is none.
ProtectionTools ==
    \E op \in {"protect", "verify", "add_digital_signature",
               "verify_document", "append"},
       signer_name \in {"S", ""}, text \in {<<"b">>, <<>>} :
        LET m == manage_protection(pdoc, signature_file, op, signer_name)
            a == add_digital_signature(pdoc, signer_name)
        IN /\ Len(protect_log) < MaxProtectOps
           /\ op = "add_digital_signature" => signer_name # ""
           /\ protect_log' =
                 Append(protect_log,
                        [op |-> op,
                         kind |-> CASE op \in {"protect", "verify"} -> m.kind
                                    [] op = "add_digital_signature" -> a.kind
                                    [] op = "verify_document" ->
                                          verify_document(pdoc, protection_file)
                                    [] OTHER -> "Appended"])
           /\ pdoc' = CASE op \in {"protect", "verify"} -> m.doc
                        [] op = "add_digital_signature" -> a.doc
                        [] op = "append" -> Append(pdoc, text)
                        [] OTHER -> pdoc
           /\ signature_file' = IF op \in {"protect", "verify"}
                                THEN m.sidecar ELSE signature_file
           /\ protection_file' = IF op = "add_digital_signature"
                                 THEN a.sidecar ELSE protection_file
           /\ UNCHANGED svars
           /\ besides("protection")

(***************************************************************************)
(* file_utils.check_file_writeable.  File names are sequences of           *)
(* characters; the directory is the set of the names of its files.         *)
(***************************************************************************)
\* number of lock files in the directory at one time
MaxLockFiles == 2

\* the files check_file_writeable is asked about
FileNames == {<<"f", ".", "d", "o", "c", "x">>,
              <<"G", ".", "D", "O", "C">>,
              <<"h", ".", "t", "x", "t">>}

\* lines 44-48: f"~${filename}", f".~lock.{filename}#",
\* f"~WRL{filename[-4:]}.tmp"
word_lock_patterns(filename) ==
    LET last_four == SubSeq(filename,
                            IF Len(filename) > 4 THEN Len(filename) - 3 ELSE 1,
                            Len(filename))
    IN << <<"~", "$">> \o filename,
          <<".", "~", "l", "o", "c", "k", ".">> \o filename \o <<"#">>,
          <<"~", "W", "R", "L">> \o last_four \o <<".", "t", "m", "p">> >>

\* filename.endswith(('.docx', '.doc')), the name as it is written
is_word_file_case_sensitive(filename) ==
    LET endswith(text, suffix) ==
            /\ Len(suffix) <= Len(text)
            /\ SubSeq(text, Len(text) - Len(suffix) + 1, Len(text)) = suffix
    IN \/ endswith(filename, <<".", "d", "o", "c", "x">>)
       \/ endswith(filename, <<".", "d", "o", "c">>)

\* line 39: filename.lower().endswith(('.docx', '.doc'))
is_word_file(filename) ==
    LET \* str.lower() on the characters of the file names
        lower_char(c) ==
            CASE c = "G" -> "g"
              [] c = "D" -> "d"
              [] c = "O" -> "o"
              [] c = "C" -> "c"
              [] OTHER -> c
        lower == [i \in 1..Len(filename) |-> lower_char(filename[i])]
        endswith(text, suffix) ==
            /\ Len(suffix) <= Len(text)
            /\ SubSeq(text, Len(text) - Len(suffix) + 1, Len(text)) = suffix
    IN \/ endswith(lower, <<".", "d", "o", "c", "x">>)
       \/ endswith(lower, <<".", "d", "o", "c">>)

\* check_file_writeable, lines 9-102; copy_ok and lock_ok are whether
\* shutil.copy2 and the exclusive lock succeed.  temp_left is the number of
\* temporary files the call leaves behind.
check_file_writeable(filepath, files, may_write, copy_ok, lock_ok) ==
    LET \* lines 39 and 50-53: the first of the lock patterns of a Word
        \* document that names a file of the directory, <<>> if there is
        \* none
        patterns == word_lock_patterns(filepath)
        hits == {k \in 1..3 : patterns[k] \in files}
        found_lock == IF hits = {} \/ ~is_word_file(filepath) THEN <<>>
                      ELSE patterns[CHOOSE k \in hits : \A j \in hits : k <= j]
        answer(is_writeable, kind, pattern, temp) ==
            [is_writeable |-> is_writeable, kind |-> kind,
             lock_pattern |-> pattern, temp_created |-> temp, temp_left |-> 0]
    IN IF filepath \notin files
       THEN answer(TRUE, "Writeable", <<>>, FALSE)
       ELSE IF filepath \notin may_write
       THEN answer(FALSE, "PermissionDenied", <<>>, FALSE)
       ELSE IF found_lock # <<>>
       THEN answer(FALSE, "LockFile", found_lock, FALSE)
       ELSE IF ~copy_ok
       THEN answer(FALSE, "CannotRead", <<>>, TRUE)
       ELSE IF ~lock_ok
       THEN answer(FALSE, "Locked", <<>>, TRUE)
       ELSE answer(TRUE, "Writeable", <<>>, TRUE)

\* one call of check_file_writeable
CheckFileWriteable ==
    \E filepath \in FileNames, copy_ok \in BOOLEAN, lock_ok \in BOOLEAN :
        LET r == check_file_writeable(filepath, directory, writable, copy_ok,
                                      lock_ok)
        IN /\ check_call' = [filepath |-> filepath,
                             is_writeable |-> r.is_writeable, kind |-> r.kind,
                             lock_pattern |-> r.lock_pattern,
                             temp_created |-> r.temp_created]
           /\ temp_files' = temp_files + r.temp_left
           /\ UNCHANGED <<directory, writable>>
           /\ UNCHANGED svars
           /\ besides("writeable")

\* what other programs do to the directory: a word processor opening and
\* closing a document (its lock file made and removed), a file removed or
\* put back, the permissions of a file changed
OtherPrograms ==
    LET LockFileNames ==
            {word_lock_patterns(f)[k] : f \in FileNames, k \in 1..3}
    IN \E name \in FileNames \cup LockFileNames :
          /\ \/ /\ name \in LockFileNames \ directory
                /\ Cardinality(directory \cap LockFileNames) < MaxLockFiles
                /\ directory' = directory \cup {name}
                /\ UNCHANGED writable
             \/ /\ name \in directory
                /\ directory' = directory \ {name}
                /\ UNCHANGED writable
             \/ /\ name \in FileNames \ directory
                /\ directory' = directory \cup {name}
                /\ UNCHANGED writable
             \/ /\ name \in FileNames
                /\ writable' = IF name \in writable THEN writable \ {name}
                               ELSE writable \cup {name}
                /\ UNCHANGED directory
          /\ UNCHANGED <<temp_files, check_call>>
          /\ UNCHANGED svars
          /\ besides("writeable")

(***************************************************************************)
(* add_text_content (content_tools.py)                                     *)
(***************************************************************************)
\* number of paragraphs of the document before the first call
MaxAddParagraphs == 2

\* number of calls of add_text_content
MaxAddCalls == 1

\* the documents add_text_content is called on
AddDocs ==
    LET AddParagraphs == [style : {"Normal"}, text : {"a", "b"}]
    IN UNION {[1..n -> AddParagraphs] : n \in 0..MaxAddParagraphs}

\* add_text_content, lines 190-338, on the paragraphs of the document file:
\* the kind of message returned and the paragraphs saved.  An absent
\* integer argument is <<>>, a given one <<n>>; the style argument keeps its
\* default.
add_text_content(doc, text, content_type, level, position, insert_before_paragraph, insert_after_paragraph) ==
    LET answer(kind, saved) == [kind |-> kind, doc |-> saved]
        \* doc.add_heading(text, level) and doc.add_paragraph(text): a new
        \* last paragraph
        add_heading(d) ==
            Append(d, [style |-> IF level[1] = 1 THEN "Heading 1"
                                 ELSE "Heading 2",
                       text |-> text])
        add_paragraph(d) == Append(d, [style |-> "Normal", text |-> text])
        \* parent.insert(index, element) of the last paragraph of d: the
        \* element is moved to the 0-based position index
        move_last(d, index) ==
            SubSeq(d, 1, index) \o <<d[Len(d)]>>
                \o SubSeq(d, index + 1, Len(d) - 1)
        \* lines 264-304: the content element is created
        with_element ==
            IF content_type = "heading"
            THEN IF position = "beginning"
                 THEN \* lines 272-275; doc.paragraphs[0] raises IndexError
                      \* on a document without paragraphs and the fallback
                      \* of lines 286-289 adds a paragraph
                      IF doc = <<>> THEN add_paragraph(doc)
                      ELSE add_heading(move_last(add_heading(doc), 0))
                 ELSE add_heading(doc)
            ELSE add_paragraph(doc)
        \* lines 315-335: the element created, the last paragraph, is moved
        positioned ==
            IF position = "before"
            THEN move_last(with_element, insert_before_paragraph[1])
            ELSE IF position = "after"
            THEN move_last(with_element, insert_after_paragraph[1] + 1)
            ELSE IF position = "beginning" /\ content_type = "paragraph"
            THEN move_last(with_element, 0)
            ELSE with_element
    IN IF text = "" THEN answer("TextRequired", doc)
       ELSE IF content_type \notin {"paragraph", "heading"}
       THEN answer("InvalidContentType", doc)
       ELSE IF position \notin {"end", "beginning", "before", "after"}
       THEN answer("InvalidPosition", doc)
       ELSE IF content_type = "heading" /\ level = <<>>
       THEN answer("LevelRequired", doc)
       ELSE IF content_type = "heading" /\ (level[1] < 1 \/ level[1] > 9)
       THEN answer("InvalidLevel", doc)
       ELSE IF position = "before" /\ insert_before_paragraph = <<>>
       THEN answer("BeforeRequired", doc)
       ELSE IF position = "after" /\ insert_after_paragraph = <<>>
       THEN answer("AfterRequired", doc)
       ELSE IF /\ insert_before_paragraph # <<>>
               /\ insert_before_paragraph[1] >= Len(doc)
       THEN answer("InvalidBefore", doc)
       ELSE IF /\ insert_after_paragraph # <<>>
               /\ insert_after_paragraph[1] >= Len(doc)
       THEN answer("InvalidAfter", doc)
       ELSE answer("Added", positioned)

\* one call of add_text_content
AddTextContent ==
    \E text \in {"new", ""}, content_type \in {"paragraph", "heading", "table"},
       level \in {<<>>, <<2>>, <<10>>}, position \in {"end", "beginning", "before", "after", "middle"},
       insert_before_paragraph \in {<<>>, <<0>>, <<1>>, <<5>>},
       insert_after_paragraph \in {<<>>, <<0>>, <<1>>} :
        LET r == add_text_content(adoc, text, content_type, level, position,
                                  insert_before_paragraph,
                                  insert_after_paragraph)
        IN /\ Len(add_log) < MaxAddCalls
           /\ adoc' = r.doc
           /\ add_log' = Append(add_log,
                                [kind |-> r.kind, content_type |-> content_type,
                                 position |-> position, text |-> text,
                                 insert_before_paragraph |->
                                     insert_before_paragraph,
                                 insert_after_paragraph |->
                                     insert_after_paragraph])
           /\ UNCHANGED svars
           /\ besides("add_text")

\* the state of the tools when the server starts.  The document of the tool
\* `own` is any document of its kind; the other tools have a fixed document
\* (for manage_track_changes, get_sections and generate_table_of_contents the
\* documents of testable properties 6, 8 and 9).
ToolsInit(own) ==
    /\ IF own = "replace" THEN para \in Paragraphs ELSE para = <<>>
    /\ replace_call =
          [kind |-> "none", count |-> 0,
           request |-> [texts |-> [find_text |-> <<>>, replace_text |-> <<>>,
                                   use_regex |-> FALSE],
                        format |-> [apply_formatting |-> FALSE, bold |-> None]]]
    /\ IF own = "get_text" THEN disk \in [DocFiles -> DiskDocs]
       ELSE disk = [f \in DocFiles |-> <<<<"o", "l", "d">>>>]
    /\ get_text_call = [pc |-> "idle", args |-> NoArgs, cid |-> 0,
                        filename |-> None, result |-> NoAnswer]
    /\ resolve_call = [document_id |-> "", filename |-> "", path |-> "",
                       error |-> "none"]
    /\ cdoc = <<<<"p">>, <<>>>>
    /\ added = <<>>
    /\ comment_call = [action |-> "none", kind |-> "none", id |-> "",
                       listing |-> <<>>]
    /\ IF own = "track_changes" THEN tdoc \in TrackDocs
       ELSE tdoc = <<[tag |-> "r", author |-> "", texts |-> <<"kept">>],
                     [tag |-> "ins", author |-> "X", texts |-> <<"added">>],
                     [tag |-> "del", author |-> "X",
                      texts |-> <<"removed">>]>>
    /\ track_call = [action |-> "none", author_filter |-> "",
                     change_ids |-> <<>>, kind |-> "none",
                     changes_processed |-> 0]
    /\ IF own = "sections" THEN sdoc \in SectionDocs
       ELSE sdoc = <<[style |-> "Heading 1", text |-> "Intro"],
                     [style |-> "Heading 2", text |-> "Background"],
                     [style |-> "Heading 1", text |-> "Methods"]>>
    /\ sections_call = [max_level |-> 0, include_subsections |-> FALSE,
                        sections |-> <<>>]
    /\ IF own = "toc" THEN tocdoc \in TocDocs
       ELSE tocdoc = <<[style |-> "Heading 1", text |-> <<"Intro">>],
                       [style |-> "Heading 2", text |-> <<"Background">>],
                       [style |-> "Heading 1", text |-> <<"Methods">>]>>
    /\ toc_log = <<>>
    /\ pdoc = <<<<"a">>>>
    /\ signature_file = [type |-> "none", signer |-> "",
                         content_hash |-> content_hash(<<>>)]
    /\ protection_file = [type |-> "none", signer |-> "",
                          content_hash |-> content_hash(<<>>)]
    /\ protect_log = <<>>
    /\ directory = FileNames
    /\ writable = FileNames
    /\ temp_files = 0
    /\ check_call = [filepath |-> <<>>, is_writeable |-> FALSE,
                     kind |-> "none", lock_pattern |-> <<>>,
                     temp_created |-> FALSE]
    /\ summary_call = [document_id |-> "", filename |-> "", kind |-> "none",
                       basename |-> "",
                       comments |-> [kind |-> "none", entries |-> <<>>],
                       changes |-> [kind |-> "none", entries |-> <<>>]]
    /\ IF own = "add_text" THEN adoc \in AddDocs
       ELSE adoc = <<[style |-> "Normal", text |-> "a"]>>
    /\ add_log = <<>>

vars == <<svars, tvars>>

(***************************************************************************)
(* The session manager as the session tools drive it                       *)
(***************************************************************************)
Init == SInit /\ ToolsInit("none")

Next ==
    \/ OpenDocument
    \/ CloseDocument
    \/ SetActiveDocument
    \/ CloseAllDocuments
    \/ ListOpenDocuments

Spec == Init /\ [][Next]_vars

(***************************************************************************)
(* The session manager under live editing: documents opened and closed,    *)
(* live requests, and the bridge's sockets.                                *)
(***************************************************************************)
LiveNext ==
    \/ LiveOpen
    \/ LiveClose
    \/ LiveCloseAll
    \/ UnregisterLiveConnection
    \/ WsConnect
    \/ WsRegister
    \/ WsResponse
    \/ WsDisconnect
    \/ SendLiveRequest
    \/ TimeoutExpire
    \/ TimeoutCleanup

LiveSpec == Init /\ [][LiveNext]_vars

\* the event loop runs: the timer that asyncio.wait_for sets for the 60
\* seconds fires if the future is still pending, and the coroutine that was
\* woken by it runs its except clause
LiveFairSpec ==
    /\ LiveSpec
    /\ WF_vars(TimeoutExpire)
    /\ WF_vars(TimeoutCleanup)

(***************************************************************************)
(* enhanced_search_and_replace called once on a document whose paragraph   *)
(* is any of Paragraphs.                                                   *)
(***************************************************************************)
\* the call of enhanced_search_and_replace; match_case and whole_words_only
\* keep their defaults
EnhancedSearchAndReplace ==
    LET \* find_text / replace_text / use_regex arguments
        TextArgs ==
            {[find_text |-> BracePattern, replace_text |-> <<Group0>>,
              use_regex |-> TRUE],
             [find_text |-> BracePattern, replace_text |-> <<"Z">>,
              use_regex |-> TRUE],
             [find_text |-> <<"c">>, replace_text |-> <<"Z", "Z">>,
              use_regex |-> FALSE],
             [find_text |-> <<"{", "x", "}">>,
              replace_text |-> <<"{", "x", "}">>, use_regex |-> FALSE],
             [find_text |-> <<>>, replace_text |-> <<"Z">>,
              use_regex |-> FALSE],
             [find_text |-> <<"c">>, replace_text |-> <<>>,
              use_regex |-> FALSE]}
        \* apply_formatting / bold arguments
        FormatArgs == [apply_formatting : BOOLEAN, bold : {None, "True"}]
    IN \E request \in [texts : TextArgs, format : FormatArgs] :
          LET r == enhanced_search_and_replace(para, request)
          IN /\ replace_call.kind = "none"
             /\ para' = r.runs
             /\ replace_call' = [kind |-> r.kind, count |-> r.count,
                                 request |-> request]
             /\ UNCHANGED svars
             /\ besides("replace")

\* the document holds any paragraph of Paragraphs
ReplaceInit == SInit /\ ToolsInit("replace")

ReplaceSpec == ReplaceInit /\ [][EnhancedSearchAndReplace]_vars

(***************************************************************************)
(* get_text called once while documents are opened and the add-ins         *)
(* connect, register, answer and disconnect; the files hold any DiskDocs.  *)
(***************************************************************************)
GetTextNext ==
    \/ LiveOpen
    \/ WsConnect
    \/ WsRegister
    \/ WsResponse
    \/ WsDisconnect
    \/ TimeoutExpire
    \/ TimeoutCleanup
    \/ GetText
    \/ GetTextResume

\* the files on disk hold any DiskDocs
GetTextInit == SInit /\ ToolsInit("get_text")

GetTextSpec == GetTextInit /\ [][GetTextNext]_vars

(***************************************************************************)
(* resolve_document_path called while documents are opened and closed      *)
(***************************************************************************)
ResolveNext ==
    \/ OpenDocument
    \/ CloseDocument
    \/ ResolveDocumentPath

ResolveSpec == Init /\ [][ResolveNext]_vars

(***************************************************************************)
(* manage_comments called on a document of two paragraphs, the first with  *)
(* text and the second empty.                                              *)
(***************************************************************************)
CommentSpec == Init /\ [][ManageComments]_vars

(***************************************************************************)
(* manage_track_changes called on a document whose paragraph holds any     *)
(* TrackDocs.                                                              *)
(***************************************************************************)
\* the paragraph of the document holds any of TrackDocs
TrackInit == SInit /\ ToolsInit("track_changes")

TrackSpec == TrackInit /\ [][ManageTrackChanges]_vars


\* generate_review_summary(document_id, filename), lines 291-333: the kind of
\* message returned and, for a summary, the name in its header and its two
\* parts.  manage_comments(filename, action="list") and
\* extract_track_changes(filename) are given the resolved path as their
\* first parameter, document_id (lines 37-38, 200); each resolves it again
\* (lines 68-70, 213-215) and answers with the error message or with its
\* report on the file.
generate_review_summary(document_id, filename) ==
    LET resolved == resolve_document_path(document_id, filename)
        path == ensure_docx_extension(resolved.path)
        part(report) ==
            LET again == resolve_document_path(path, "")
            IN IF again.error # ""
               THEN [kind |-> again.error, entries |-> <<>>]
               ELSE IF ~PathExists(again.path)
               THEN [kind |-> "DoesNotExist", entries |-> <<>>]
               ELSE [kind |-> "Report", entries |-> report]
        answer(kind, basename, comments, changes) ==
            [document_id |-> document_id, filename |-> filename,
             kind |-> kind, basename |-> basename,
             comments |-> comments, changes |-> changes]
        nothing == [kind |-> "none", entries |-> <<>>]
    IN IF resolved.error # ""
       THEN answer(resolved.error, "", nothing, nothing)
       ELSE IF ~PathExists(path)
       THEN answer("DoesNotExist", "", nothing, nothing)
       ELSE answer("Summary", path, part(list_comments(cdoc)),
                   part(extract_track_changes(tdoc)))

\* one call of generate_review_summary; every document file holds the
\* paragraphs cdoc and the tracked changes tdoc
GenerateReviewSummary ==
    \E document_id \in IdInputs, filename \in {"", "f1", "f2.docx", "gone.docx"} :
        /\ summary_call' = generate_review_summary(document_id, filename)
        /\ UNCHANGED svars
        /\ besides("review_summary")

ReviewNext ==
    \/ OpenDocument
    \/ CloseDocument
    \/ GenerateReviewSummary

ReviewSpec == Init /\ [][ReviewNext]_vars

(***************************************************************************)
(* get_sections called on a document whose paragraphs are any SectionDocs. *)
(***************************************************************************)
\* the document is any of SectionDocs
SectionInit == SInit /\ ToolsInit("sections")

SectionSpec == SectionInit /\ [][GetSections]_vars

(***************************************************************************)
(* generate_table_of_contents called up to MaxTocCalls times on a document *)
(* whose paragraphs are any TocDocs.                                       *)
(***************************************************************************)
\* the document is any of TocDocs
TocDocInit == SInit /\ ToolsInit("toc")

TocSpec == TocDocInit /\ [][GenerateTableOfContents]_vars

(***************************************************************************)
(* A document that is signed, verified and edited, MaxProtectOps times.    *)
(***************************************************************************)
ProtectSpec == Init /\ [][ProtectionTools]_vars

(***************************************************************************)
(* check_file_writeable called while lock files come and go, files are     *)
(* removed and put back and permissions change.                            *)
(***************************************************************************)
WriteableNext ==
    \/ CheckFileWriteable
    \/ OtherPrograms

WriteableSpec == Init /\ [][WriteableNext]_vars

\* the document is any of AddDocs
AddTextInit == SInit /\ ToolsInit("add_text")

AddTextSpec == AddTextInit /\ [][AddTextContent]_vars

(***************************************************************************)
(* Properties of the session manager                                       *)
(***************************************************************************)
\* C3: in every state reachable by open, close, set_active and close_all
\* calls, successful or failing, active_document_id is unset or is the id of
\* a currently open handle.
C3_ActiveIsOpen == active = None \/ active \in OpenIds

\* C3 witness: a close succeeded, a document remains and it is the active one
C3_Witness ==
    /\ result.op = "close" /\ result.kind = "Ok"
    /\ Len(documents) = 1 /\ created = 2
    /\ active = documents[1].document_id

\* C4 as stated: while document_id is open, every attempt to open any file
\* path under it returns the Conflict message and leaves the handles, their
\* paths and metadata, and the active pointer unchanged.
C4_ConflictForAnyPath ==
    [][\A d \in Ids, p \in PathInputs :
          (d \in OpenIds /\ OpenCall(d, p))
              => /\ result'.kind = "Conflict"
                 /\ UNCHANGED <<documents, active>>]_vars

\* C4 amended: while document_id is open, every attempt to open under it
\* fails and leaves the handles, their paths and metadata, and the active
\* pointer unchanged; the message is Conflict exactly when file_path is
\* non-empty and names an existing file, EmptyPath or NotFound otherwise.
C4_OpenUnderOpenIdFails ==
    [][\A d \in Ids, p \in PathInputs :
          (d \in OpenIds /\ OpenCall(d, p))
              => /\ result'.kind \in {"EmptyPath", "NotFound", "Conflict"}
                 /\ result'.kind = "Conflict"
                       <=> (p # "" /\ PathExists(ensure_docx_extension(p)))
                 /\ result'.kind = "EmptyPath" <=> p = ""
                 /\ UNCHANGED <<documents, active>>]_vars

\* C4 witness: an open was refused with the Conflict message
C4_Witness ==
    /\ result.op = "open" /\ result.kind = "Conflict"
    /\ result.document_id \in OpenIds

\* C5: the first document opened becomes active and later opens leave the
\* active id alone; closing the active document makes a remaining open
\* document active, or clears the active id when none remain, and then the
\* listing reports no open documents.
C5_ActiveReassignment ==
    [][/\ \A d \in Ids, p \in PathInputs :
            (OpenCall(d, p) /\ result'.kind = "Ok")
                => active' = IF documents = <<>> THEN d ELSE active
       /\ \A d \in Ids :
            (CloseCall(d) /\ result'.kind = "Ok" /\ active = d)
                => IF Len(documents) = 1
                   THEN /\ active' = None
                        /\ list_open_documents'.kind = "NoDocuments"
                   ELSE /\ active' # d
                        /\ active' \in OpenIds']_vars

\* C5 witness: two documents were opened, the first was closed and the
\* second is now the active one
C5_Witness ==
    /\ result.op = "close" /\ result.kind = "Ok"
    /\ Len(documents) = 1 /\ documents[1].hid = 2
    /\ active = documents[1].document_id /\ active # result.document_id

(***************************************************************************)
(* Properties of live requests and of the bridge                           *)
(***************************************************************************)
\* C6: a pending request is completed only by a response from the socket
\* that is the live connection of the handle it is pending on; it gets the
\* payload on success and the carried error otherwise; a response from an
\* unrecognised socket or with an unknown correlation id changes nothing;
\* a completed request is never completed again.
C6_ResponseCompletion ==
    [][LET \* the handle position handle_live_response resolves the socket
           \* to (0: none)
           OwnerOf(s) == get_document(find_document_by_websocket(s))
           \* the future a response completes a request with
           Completion(data) ==
               IF data.status = "success"
               THEN [state |-> "result", value |-> data.data]
               ELSE [state |-> "exception", value |-> data.error]
       IN
       /\ \A c \in Cids :
            (futures[c].state = "pending" /\ futures'[c].state \in {"result", "exception"})
                => \E s \in Sockets, data \in ResponseData, i \in 1..Len(documents) :
                      /\ ResponseCall(s, c, data)
                      /\ documents[i].websocket_connection = s
                      /\ c \in pending_requests[documents[i].hid]
                      /\ futures'[c] = Completion(data)
       /\ \A s \in Sockets, c \in Cids, data \in ResponseData :
            ResponseCall(s, c, data)
                => IF OwnerOf(s) # 0 /\ c \in pending_requests[documents[OwnerOf(s)].hid]
                   THEN /\ c \notin pending_requests'[documents[OwnerOf(s)].hid]
                        /\ futures[c].state = "pending" => futures'[c] = Completion(data)
                   ELSE UNCHANGED svars
       /\ \A c \in Cids :
            futures[c].state \in {"result", "exception"} => futures'[c] = futures[c]]_vars

\* C6 witness: a request was completed with the payload of a response
C6_Witness ==
    \E c \in Cids : futures[c].state = "result" /\ futures[c].value = "p1"

\* C7: once the timeout of a request has expired the call ends with the
\* Timeout failure and its entry is gone from the handle's pending map; a
\* response that arrives from then on completes nothing.
C7_Timeout ==
    [][\A c \in Cids :
          /\ (callers[c].pc = "timing_out" /\ callers'[c] # callers[c])
                => /\ callers'[c].pc = "raised_timeout"
                   /\ \A h \in Hids : c \notin pending_requests'[h]
          /\ callers[c].pc = "raised_timeout"
                => /\ callers'[c] = callers[c]
                   /\ \A h \in Hids : c \notin pending_requests'[h]
          /\ callers[c].pc \in {"timing_out", "raised_timeout"}
                => /\ futures[c].state = "cancelled"
                   /\ futures'[c] = futures[c]]_vars

\* C7 witness: a request ended with the Timeout failure
C7_Witness == \E c \in Cids : callers[c].pc = "raised_timeout"

\* C8: when an open handle goes from live to not live every request pending
\* on it is cancelled and its pending map is empty, and a call of
\* unregister_live_connection on a live handle does make it not live and
\* leaves it open.
C8_DetachCancels ==
    [][\A d \in Ids :
          /\ (is_document_live(d) /\ UnregisterCall(d))
                => /\ d \in OpenIds'
                   /\ ~is_document_live(d)'
                   /\ documents' = [documents EXCEPT
                                       ![get_document(d)].websocket_connection = None]
          /\ (is_document_live(d) /\ d \in OpenIds' /\ ~is_document_live(d)'
                /\ documents'[get_document(d)'].hid = documents[get_document(d)].hid)
                => LET h == documents[get_document(d)].hid IN
                   /\ \A c \in pending_requests[h] : futures'[c].state = "cancelled"
                   /\ pending_requests'[h] = {}]_vars

\* C8 witness: a request was cancelled by a detach and its handle is still open
C8_Witness ==
    \E c \in Cids, i \in 1..Len(documents) :
        /\ futures[c].state = "cancelled"
        /\ Outcome(c) = "Cancelled"
        /\ callers[c].hid = documents[i].hid
        /\ documents[i].websocket_connection = None

\* C9: after a socket's disconnect has been handled no open handle still has
\* that socket as its live connection.
C9_DisconnectDetachesAll ==
    \A s \in Sockets :
        sockets[s].state = "closed"
            => \A i \in 1..Len(documents) : documents[i].websocket_connection # s

(***************************************************************************)
(* Properties of enhanced_search_and_replace                               *)
(***************************************************************************)
\* the text expected of the paragraph: its text with every match of the
\* request replaced where it stands (what re.sub gives)
expected_text(runs, request) ==
    LET text == para_text(runs)
        matches == finditer(search_pattern(request.texts.find_text,
                                           request.texts.use_regex), text)
        \* the text from offset pos on, the k-th match being the next one
        RECURSIVE substituted(_, _)
        substituted(k, pos) ==
            IF k > Len(matches) THEN SubSeq(text, pos + 1, Len(text))
            ELSE SubSeq(text, pos + 1, matches[k].start)
                    \o actual_replace_text(request, text, matches[k])
                    \o substituted(k + 1, matches[k].end)
    IN substituted(1, 0)

\* C1: however the paragraph is split into runs and whichever runs hold the
\* matches, after a replacing call with apply_formatting the concatenation of
\* the runs is the original text with exactly the matched spans replaced (so
\* a self-replacement leaves the text identical).
C1_TextPreserved ==
    [][(/\ replace_call.kind = "none"
        /\ replace_call'.kind = "Replaced"
        /\ replace_call'.request.format.apply_formatting)
           => para_text(para') = expected_text(para, replace_call'.request)]_vars

\* C2: for a paragraph with several non-overlapping matches, after the call
\* every replaced token stands intact at its own position: the tokens and
\* the text between them follow each other in the order they had before.
C2_TokensKeepOrder ==
    [][(/\ replace_call.kind = "none"
        /\ replace_call'.kind = "Replaced"
        /\ replace_call'.count >= 2
        /\ Len(para) = 1)
           => para_text(para') = expected_text(para, replace_call'.request)]_vars

(***************************************************************************)
(* Properties of get_text                                                  *)
(***************************************************************************)
\* C10: when get_text found the document live and its live request returned
\* the content, the answer is computed from that content only: it is the
\* answer get_text gives whatever the files on disk hold.
C10_LiveContentOnly ==
    [][(/\ get_text_call.pc = "awaiting"
        /\ get_text_call'.pc = "done"
        /\ Outcome(get_text_call.cid) = "Returned")
           => \A files \in [DocFiles -> DiskDocs] :
                 get_text_call'.result =
                    live_answer(get_text_call.args, "Returned",
                                futures[get_text_call.cid].value,
                                is_document_live(get_text_call.args.document_id),
                                files, get_text_call.filename)]_vars

(***************************************************************************)
(* Properties of resolve_document_path                                     *)
(***************************************************************************)
\* C11: with both arguments the document_id decides: an open id gives the
\* handle's file path and no error, an id that is not open gives no path and
\* an error (the filename is no fallback); with neither argument the call
\* gives an error; with a filename only it gives the trimmed, .docx-normalized
\* filename, whether or not the file exists; in every case exactly one of
\* path and error is non-empty.
C11_DocumentIdDecides ==
    [][resolve_call' # resolve_call =>
          LET r == resolve_call'
              d == r.document_id
              f == r.filename
              \* the filename trimmed and carrying the .docx extension
              normalized_filename ==
                  CASE f \in {"f1", " f1 "} -> "f1.docx"
                    [] f = " " -> ".docx"
                    [] OTHER -> f
          IN /\ (d # "" /\ f # "" /\ d \in OpenIds)
                   => /\ r.error = ""
                      /\ \E i \in 1..Len(documents) :
                            /\ documents[i].document_id = d
                            /\ r.path = documents[i].file_path
             /\ (d # "" /\ f # "" /\ d \notin OpenIds)
                   => r.path = "" /\ r.error # ""
             /\ (d = "" /\ f = "") => r.path = "" /\ r.error # ""
             /\ (d = "" /\ f # "")
                   => r.path = normalized_filename /\ r.error = ""
             /\ (r.path = "") # (r.error = "")]_vars

\* C11 witness: resolve_document_path was called with an open id and the name
\* of another file, and answered the handle's path
C11_Witness ==
    /\ resolve_call.document_id = "main"
    /\ resolve_call.filename = "f2.docx"
    /\ resolve_call.path = "f1.docx"
    /\ resolve_call.error = ""


(***************************************************************************)
(* Properties of manage_comments                                           *)
(***************************************************************************)
\* C12: on a document without comments, add(paragraph 0, text T, author A)
\* makes the listing exactly one entry with author A, text T, paragraph 0
\* and status comment; resolve with that id makes the listing the same entry
\* with status resolved; delete with that id makes the listing empty.
C12_CommentRoundTrip ==
    [][LET \* the document holds no marker
           no_markers == \A i \in 1..Len(cdoc) : \A k \in 1..Len(cdoc[i]) :
                            cdoc[i][k] # "["
           a == added'[Len(added')]
       IN
       /\ ( /\ no_markers
            /\ Len(added') = Len(added) + 1
            /\ a.paragraph_index = 0
            /\ a.author # <<>> )
          => list_comments(cdoc')
               = <<[id |-> a.id, author |-> a.author, status |-> "comment",
                    text |-> a.text, paragraph_index |-> 0]>>
       /\ \A c \in {uuid4[n] : n \in 1..MaxComments} :
            ( /\ Len(list_comments(cdoc)) = 1
              /\ list_comments(cdoc)[1].id = c
              /\ list_comments(cdoc)[1].status = "comment"
              /\ comment_call' = [action |-> "resolve", kind |-> "Resolved",
                                  id |-> c, listing |-> <<>>] )
            => list_comments(cdoc')
                 = <<[list_comments(cdoc)[1] EXCEPT !.status = "resolved"]>>
       /\ \A c \in {uuid4[n] : n \in 1..MaxComments} :
            ( /\ Len(list_comments(cdoc)) = 1
              /\ list_comments(cdoc)[1].id = c
              /\ comment_call'.action = "delete"
              /\ comment_call'.id = c )
            => list_comments(cdoc') = <<>>
      ]_vars

\* C13: delete of a comment whose marker stands in the document removes that
\* marker, from "[COMMENT-<id>" or "[RESOLVED-<id>" to the bracket that
\* closes it, and leaves every other token of the document as it was, for
\* every text and author add accepted.
C13_DeleteRemovesWholeMarker ==
    [][\A n \in 1..Len(added), status \in {"COMMENT", "RESOLVED"} :
         LET \* the marker add wrote for added[n], as it stands under status,
             \* without the space add put before it
             marker == comment_marker(added[n].id,
                           IF added[n].author = <<>> THEN <<"User">>
                           ELSE added[n].author,
                           added[n].text)
             whole_marker == <<"[", status>> \o SubSeq(marker, 4, Len(marker))
             p == added[n].paragraph_index + 1
         IN ( /\ comment_call'.action = "delete"
              /\ comment_call'.id = added[n].id
              /\ str_find(cdoc[p], whole_marker, 0) # -1 )
            => cdoc' = [cdoc EXCEPT ![p] = str_replace(@, whole_marker, <<>>)]
      ]_vars


(***************************************************************************)
(* Properties of manage_track_changes                                      *)
(***************************************************************************)
\* C14: on a document with one insertion ("added") and one deletion
\* ("removed"), accept_all leaves a text that holds "added" and not
\* "removed", and reject_all leaves a text that holds "removed" and not
\* "added".
C14_AcceptRejectSymmetry ==
    [][LET has_word(body, word) ==
               \E i \in 1..Len(document_text(body)) :
                   document_text(body)[i] = word
           \* the document holds one insertion and one deletion, and
           \* neither word in its plain runs
           one_of_each ==
               /\ ~has_word(tdoc, "added")
               /\ ~has_word(tdoc, "removed")
               /\ Len(SelectSeq(tdoc, LAMBDA e : e.tag = "ins")) = 1
               /\ Len(SelectSeq(tdoc, LAMBDA e :
                                    e.tag = "del" /\ e.texts # <<>>)) = 1
               /\ Len(extract_track_changes(tdoc)) = 2
       IN
       /\ ( /\ one_of_each
            /\ track_call'.action = "accept_all"
            /\ track_call'.author_filter = "" )
          => /\ has_word(tdoc', "added")
             /\ ~has_word(tdoc', "removed")
       /\ ( /\ one_of_each
            /\ track_call'.action = "reject_all"
            /\ track_call'.author_filter = "" )
          => /\ has_word(tdoc', "removed")
             /\ ~has_word(tdoc', "added")
      ]_vars

\* C15: accept_selective or reject_selective with author_filter X processes
\* every change of X and leaves the changes of any other author Y as they
\* were, so that a later call filtered by Y finds exactly the changes of Y.
C15_AuthorFilterSelects ==
    [][LET \* the changes of the document that author made
           changes_by(body, author) ==
               SelectSeq(extract_track_changes(body),
                         LAMBDA e : e.author = author)
       IN \A x \in ChangeAuthors : \A y \in ChangeAuthors \ {x} :
            ( /\ track_call'.action \in {"accept_selective",
                                         "reject_selective"}
              /\ track_call'.author_filter = x )
            => /\ changes_by(tdoc', x) = <<>>
               /\ changes_by(tdoc', y) = changes_by(tdoc, y)
      ]_vars


(***************************************************************************)
(* Properties of get_sections                                              *)
(***************************************************************************)
\* C16: with include_subsections, every level-1 heading is a top-level
\* section of the forest, and every deeper heading of a level up to max_level
\* that has a top-level section before it is a subsection of the nearest one
\* of them, and of no other section, and is not top-level itself.
C16_ForestNesting ==
    (sections_call.max_level # 0 /\ sections_call.include_subsections) =>
        LET forest == sections_call.sections
            \* the paragraphs (from 1) that are headings of a level up to
            \* max_level
            headings == {i \in 1..Len(sdoc) :
                            heading_level(sdoc[i].style)
                                \in 1..sections_call.max_level}
            \* section is the section of paragraph i
            section_of(section, i) ==
                /\ section.paragraph_index = i - 1
                /\ section.title = strip(sdoc[i].text)
                /\ section.level = heading_level(sdoc[i].style)
            \* the top-level sections that start before paragraph i
            roots_before(i) ==
                {j \in 1..Len(forest) : forest[j].paragraph_index < i - 1}
        IN \A i \in headings :
              IF heading_level(sdoc[i].style) = 1
              THEN \E j \in 1..Len(forest) : section_of(forest[j], i)
              ELSE roots_before(i) # {} =>
                     LET near == CHOOSE j \in roots_before(i) :
                                    \A k \in roots_before(i) : k <= j
                     IN /\ \E s \in 1..Len(forest[near].subsections) :
                             section_of(forest[near].subsections[s], i)
                        /\ \A j \in 1..Len(forest) :
                             /\ forest[j].paragraph_index # i - 1
                             /\ j # near =>
                                  \A s \in 1..Len(forest[j].subsections) :
                                     forest[j].subsections[s].paragraph_index # i - 1

\* H1 Intro, H2 Background, H1 Methods gave two top-level sections, with
\* Background under Intro
C16_Witness ==
    /\ sdoc = <<[style |-> "Heading 1", text |-> "Intro"],
                [style |-> "Heading 2", text |-> "Background"],
                [style |-> "Heading 1", text |-> "Methods"]>>
    /\ sections_call.max_level = 3
    /\ sections_call.include_subsections
    /\ Len(sections_call.sections) = 2
    /\ sections_call.sections[1].title = "Intro"
    /\ Len(sections_call.sections[1].subsections) = 1
    /\ sections_call.sections[1].subsections[1].title = "Background"
    /\ sections_call.sections[2].title = "Methods"
    /\ sections_call.sections[2].subsections = <<>>


(***************************************************************************)
(* Properties of generate_table_of_contents                                *)
(***************************************************************************)
\* C17: after generate_table_of_contents on a document with three headings
\* and a second call with update_existing=true, the document holds exactly
\* three ToC entry paragraphs.
C17_RegenerationIdempotent ==
    LET \* how many paragraphs with text and without a heading style stand
        \* from j on before the next heading or the end of the document
        RECURSIVE entries_from(_)
        entries_from(j) ==
            IF j > Len(tocdoc) \/ heading_level(tocdoc[j].style) # 0 THEN 0
            ELSE (IF tocdoc[j].text # <<>> THEN 1 ELSE 0) + entries_from(j + 1)
        \* the ToC entry paragraphs: those that follow the ToC heading
        toc_entries == IF toc_position(tocdoc) = 0 THEN 0
                       ELSE entries_from(toc_position(tocdoc) + 1)
    IN ( /\ Len(toc_log) = 2
         /\ toc_log[1].max_level = 3 /\ toc_log[1].entries = 3
         /\ toc_log[2].max_level = 3 /\ toc_log[2].update_existing )
       => toc_entries = 3


(***************************************************************************)
(* Properties of the protection tools                                      *)
(***************************************************************************)
\* C18: verifying right after signing (manage_protection protect+signature,
\* or add_digital_signature) reports the signature valid, and verifying after
\* signing and then appending a paragraph reports the document modified.
C18_TamperDetection ==
    [][\A sign \in {"protect", "add_digital_signature"} :
         LET n == Len(protect_log)
             verified == /\ Len(protect_log') = n + 1
                         \* the operation that verifies what sign signed
                         /\ protect_log'[n + 1].op =
                               IF sign = "protect" THEN "verify"
                               ELSE "verify_document"
         IN /\ ( /\ verified
                 /\ n >= 1
                 /\ protect_log[n].op = sign
                 /\ protect_log[n].kind # "SignerRequired" )
               => protect_log'[n + 1].kind = "Valid"
            /\ ( /\ verified
                 /\ n >= 2
                 /\ protect_log[n].op = "append"
                 /\ protect_log[n - 1].op = sign
                 /\ protect_log[n - 1].kind # "SignerRequired" )
               => protect_log'[n + 1].kind = "Modified"
      ]_vars


(***************************************************************************)
(* Properties of check_file_writeable                                      *)
(***************************************************************************)
\* C19 as claimed: whenever a lock file of an existing .docx/.doc file is in
\* the directory, whatever the permissions of the file, check_file_writeable
\* reports it not writable with a message naming the lock pattern, and
\* neither creates nor leaves a temporary file.
C19_LockFileReported ==
    [][LET \* the lock files of filepath that are in the directory
           locks_of(filepath) ==
               {word_lock_patterns(filepath)[k] : k \in 1..3} \cap directory
       IN \A f \in {<<"f", ".", "d", "o", "c", "x">>,
                    <<"G", ".", "D", "O", "C">>} :
            ( /\ check_call'.filepath = f
              /\ check_call' # check_call \/ temp_files' # temp_files
              /\ f \in directory
              /\ locks_of(f) # {} )
            => /\ ~check_call'.is_writeable
               /\ check_call'.lock_pattern \in locks_of(f)
               /\ ~check_call'.temp_created
               /\ temp_files' = temp_files
      ]_vars

\* C19 amended: the same when the permissions of the file allow writing;
\* when they do not the file is reported not writable for its permissions.
C19_LockFileReportedWhenPermitted ==
    [][LET locks_of(filepath) ==
               {word_lock_patterns(filepath)[k] : k \in 1..3} \cap directory
       IN \A f \in {<<"f", ".", "d", "o", "c", "x">>,
                    <<"G", ".", "D", "O", "C">>} :
            ( /\ check_call'.filepath = f
              /\ check_call' # check_call \/ temp_files' # temp_files
              /\ f \in directory
              /\ locks_of(f) # {} )
            => /\ temp_files' = temp_files
               /\ ~check_call'.is_writeable
               /\ ~check_call'.temp_created
               /\ IF f \in writable
                  THEN check_call'.lock_pattern \in locks_of(f)
                  ELSE check_call'.kind = "PermissionDenied"
      ]_vars

\* a writable Word document with a lock file was reported locked
C19_Witness ==
    /\ check_call.kind = "LockFile"
    /\ check_call.filepath \in writable
    /\ check_call.lock_pattern \in directory
    /\ temp_files = 0


(***************************************************************************)
(* Termination of send_live_request                                        *)
(***************************************************************************)
\* C20: every send_live_request that was accepted and waits for its answer
\* ends at last: it returns the payload, raises the error of the response,
\* raises Timeout, or is cancelled, whatever else happens meanwhile.
C20_EveryRequestTerminates ==
    \A c \in Cids :
        (callers[c].pc = "awaiting")
            ~> (Outcome(c) \in {"Returned", "Raised", "Timeout", "Cancelled"})

\* an accepted request has ended
C20_Witness ==
    \E c \in Cids :
        /\ callers[c].pc \in {"awaiting", "raised_timeout"}
        /\ Outcome(c) \in {"Returned", "Raised", "Timeout", "Cancelled"}

(***************************************************************************)
(* Further properties of get_sections                                      *)
(***************************************************************************)
\* C21: in the forest get_sections built, every subsection of a section has
\* a level greater than the level of that section and at most max_level.
C21_SubsectionLevels ==
    sections_call.max_level # 0 =>
        \A j \in 1..Len(sections_call.sections) :
            \A s \in 1..Len(sections_call.sections[j].subsections) :
                LET section == sections_call.sections[j]
                    sub == section.subsections[s]
                IN /\ sub.level > section.level
                   /\ sub.level <= sections_call.max_level

C23_FormattingOnlyOnReplacement ==
    [][(replace_call.kind = "none" /\ replace_call'.kind = "Replaced") =>
        LET request == replace_call'.request
            RECURSIVE flat(_)
            flat(runs) ==
                IF runs = <<>> THEN <<>>
                ELSE [i \in 1..Len(Head(runs).text) |->
                         <<Head(runs).text[i], Head(runs).bold>>]
                     \o flat(Tail(runs))
            requested(inherited) ==
                IF request.format.apply_formatting
                   /\ request.format.bold # None
                THEN request.format.bold
                ELSE inherited
        IN \A before \in {flat(para)}, after \in {flat(para')},
              text \in {para_text(para)} :
           \A matches \in {finditer(search_pattern(request.texts.find_text,
                                           request.texts.use_regex), text)} :
           \A outside \in {{i \in 1..Len(before) :
                              \A k \in 1..Len(matches) :
                                 ~(/\ matches[k].start < i
                                   /\ i <= matches[k].end)}},
              replacement \in
                  {[k \in 1..Len(matches) |->
                      [text |-> actual_replace_text(request, text,
                                                    matches[k]),
                       bold |-> requested(before[matches[k].start + 1][2])]]} :
           \A written \in
                  {[k \in 1..Len(matches) |->
                      [j \in 1..Len(replacement[k].text) |->
                          <<replacement[k].text[j], replacement[k].bold>>]]} :
           \A x \in {after[i] : i \in 1..Len(after)}
                    \cup {before[i] : i \in outside}
                    \cup UNION {{written[k][j] : j \in 1..Len(written[k])} :
                                k \in 1..Len(matches)} :
              Cardinality({i \in 1..Len(after) : after[i] = x})
                 = Cardinality({i \in outside : before[i] = x})
                   + Cardinality(
                       UNION {{<<k, j>> : j \in {j \in 1..Len(written[k]) :
                                                   written[k][j] = x}} :
                              k \in 1..Len(matches)})
      ]_vars

\* a call with apply_formatting and bold replaced two matches in a paragraph
\* that keeps text that is not bold
C23_Witness ==
    /\ replace_call.kind = "Replaced"
    /\ replace_call.count >= 2
    /\ replace_call.request.format.apply_formatting
    /\ replace_call.request.format.bold = "True"
    /\ \E i \in 1..Len(para) : para[i].bold = None /\ para[i].text # <<>>
    /\ \E i \in 1..Len(para) : para[i].bold = "True" /\ para[i].text # <<>>

(***************************************************************************)
(* Properties of generate_review_summary                                   *)
(***************************************************************************)
\* C24: generate_review_summary called for a document that exists, by the
\* filename of an existing file or by the document_id of an open document,
\* returns a summary whose header names the file, whose COMMENTS part is the
\* list-mode comment report of the document and whose TRACK CHANGES part is
\* its track-changes report; neither part is an error message.
C24_SummaryHoldsBothReports ==
    [][( /\ summary_call' # summary_call
         /\ \/ summary_call'.document_id \in OpenIds
            \/ /\ summary_call'.document_id = ""
               /\ summary_call'.filename # ""
               /\ PathExists(ensure_docx_extension(summary_call'.filename)) )
       => /\ summary_call'.kind = "Summary"
          /\ summary_call'.basename
                = IF summary_call'.document_id \in OpenIds
                  THEN get_document_path(summary_call'.document_id)
                  ELSE ensure_docx_extension(summary_call'.filename)
          /\ summary_call'.comments
                = [kind |-> "Report", entries |-> list_comments(cdoc)]
          /\ summary_call'.changes
                = [kind |-> "Report",
                   entries |-> extract_track_changes(tdoc)]
      ]_vars

(***************************************************************************)
(* Further properties of the live connections                              *)
(***************************************************************************)
\* C25: whenever a request is pending on an open handle, a success response
\* with its correlation id sent by the socket that is the live connection of
\* that handle completes the request with the payload of the response,
\* whatever handles are open and whatever was registered before.
C25_ConnectionResponseCompletes ==
    \A i \in 1..Len(documents), c \in Cids, data \in ResponseData :
        LET s == documents[i].websocket_connection
        IN ( /\ s # None
             /\ sockets[s].state = "open"
             /\ c \in pending_requests[documents[i].hid]
             /\ futures[c].state = "pending"
             /\ data.status = "success" )
           => ENABLED ( /\ ResponseCall(s, c, data)
                        /\ futures'[c] = [state |-> "result",
                                          value |-> data.data]
                        /\ c \notin pending_requests'[documents[i].hid] )


\* C26: the disconnect of a socket leaves every handle whose live connection
\* is another socket attached to that socket, with its pending requests as
\* they were and none of them cancelled.
C26_DisconnectSparesOtherSockets ==
    [][\A s1 \in Sockets :
         (sockets[s1].state = "open" /\ sockets'[s1].state = "closed")
         => \A i \in 1..Len(documents) :
               LET s2 == documents[i].websocket_connection
                   h == documents[i].hid
               IN (s2 # None /\ s2 # s1)
                  => /\ documents'[i] = documents[i]
                     /\ pending_requests'[h] = pending_requests[h]
                     /\ \A c \in pending_requests[h] : futures'[c] = futures[c]
      ]_vars


\* C27: no live request stays pending on a closed handle: every request that
\* is not yet completed, cancelled or timed out is pending on a handle that
\* is open.
C27_PendingOnlyOnOpenHandles ==
    \A c \in Cids :
        (callers[c].pc = "awaiting" /\ futures[c].state = "pending")
            => \E i \in 1..Len(documents) :
                  /\ documents[i].hid = callers[c].hid
                  /\ c \in pending_requests[documents[i].hid]

(***************************************************************************)
(* Further properties of generate_table_of_contents                        *)
(***************************************************************************)
\* C28: after a call that created or updated the table of contents, the
\* paragraphs directly after the ToC heading are the entries of the headings
\* of the document up to max_level, in the order in which those headings
\* stand in the document.
C28_EntriesInDocumentOrder ==
    [][( /\ Len(toc_log') = Len(toc_log) + 1
         /\ toc_log'[Len(toc_log')].kind \in {"created", "updated"} )
       => LET call == toc_log'[Len(toc_log')]
              headings ==
                  SelectSeq(tocdoc,
                            LAMBDA p : /\ heading_level(p.style) # 0
                                       /\ heading_level(p.style)
                                             <= call.max_level)
              entry(p) ==
                  [style |-> "Normal",
                   text |-> [n \in 1..(heading_level(p.style) - 1) |-> "    "]
                               \o p.text]
              i == toc_position(tocdoc')
          IN /\ i # 0
             /\ i + Len(headings) <= Len(tocdoc')
             /\ \A k \in 1..Len(headings) :
                   tocdoc'[i + k] = entry(headings[k])
      ]_vars


\* C29: a call that created or updated the table of contents keeps the
\* document's own paragraphs: every paragraph that was in the document
\* before the call, other than the ToC heading and the entries an earlier
\* call wrote after it, is still there with its text and its style, in the
\* same order.
C29_OwnParagraphsKept ==
    [][( /\ Len(toc_log') = Len(toc_log) + 1
         /\ toc_log'[Len(toc_log')].kind \in {"created", "updated"} )
       => LET i == toc_position(tocdoc)
              \* the entries the earlier call wrote after the ToC heading
              written == IF toc_log = <<>> THEN 0
                         ELSE toc_log[Len(toc_log)].entries
              own == IF i = 0 THEN tocdoc
                     ELSE SubSeq(tocdoc, 1, i - 1)
                             \o SubSeq(tocdoc, i + written + 1, Len(tocdoc))
              RECURSIVE kept_in_order(_, _)
              kept_in_order(a, b) ==
                  IF a = <<>> THEN TRUE
                  ELSE IF b = <<>> THEN FALSE
                  ELSE IF Head(a) = Head(b)
                  THEN kept_in_order(Tail(a), Tail(b))
                  ELSE kept_in_order(a, Tail(b))
          IN kept_in_order(own, tocdoc')
      ]_vars

(***************************************************************************)
(* Properties of add_text_content                                          *)
(***************************************************************************)
\* C30: every successful call of add_text_content adds exactly one paragraph,
\* at the requested position: last for "end", index 0 for "beginning", index
\* k for "before" k, index k + 1 for "after" k, for a paragraph and for a
\* heading; the paragraphs that were there keep their order and their text.
C30_OneParagraphAtPosition ==
    [][( /\ Len(add_log') = Len(add_log) + 1
         /\ add_log'[Len(add_log')].kind = "Added" )
       => LET call == add_log'[Len(add_log')]
              \* the 0-based index the new paragraph is to have
              index == CASE call.position = "end" -> Len(adoc)
                         [] call.position = "beginning" -> 0
                         [] call.position = "before" ->
                                call.insert_before_paragraph[1]
                         [] OTHER -> call.insert_after_paragraph[1] + 1
          IN /\ Len(adoc') = Len(adoc) + 1
             /\ adoc'[index + 1].text = call.text
             /\ SubSeq(adoc', 1, index) \o SubSeq(adoc', index + 2, Len(adoc'))
                   = adoc
      ]_vars
====
